---- MODULE Spec2Model ----
(***************************************************************************)
(* Deduplication core of the AdCopy-Generator pipeline:                    *)
(*   deduplication/similarity_checker.py   (text and record similarity,    *)
(*                                          duplicate decision)            *)
(*   deduplication/supabase_lookup.py      (candidate retrieval)           *)
(*   deduplication/deduplication_controller.py (check_for_duplicates, ...) *)
(*                                                                         *)
(* Text is a sequence of one-character strings.  Python floats are binary  *)
(* floating-point numbers rounded to nearest, ties to even, after every    *)
(* operation; the model keeps that arithmetic and shortens the significand *)
(* from 53 bits to Precision bits.                                         *)
(***************************************************************************)
EXTENDS Integers, Sequences, FiniteSets, TLC

\* Bits of the significand of a model float (a double has 53).
Precision == 10

(***************************************************************************)
(* Floating-point arithmetic: a float is [m, e] with value m * 2^e, and    *)
(* either m = 0 (zero, e = 0) or 2^(Precision-1) <= m < 2^Precision.       *)
(* All values of the program are non-negative.                             *)
(***************************************************************************)
RECURSIVE Pow2(_)
Pow2(k) == IF k <= 0 THEN 1 ELSE 2 * Pow2(k - 1)

FZero == [m |-> 0, e |-> 0]

\* Round n * 2^e (plus a non-zero fraction below 2^e when sticky) to
\* Precision bits, nearest, ties to even.
RECURSIVE FRound(_, _, _)
FRound(n, e, sticky) ==
    IF n = 0 THEN FZero
    ELSE IF n < Pow2(Precision) THEN
        IF n >= Pow2(Precision - 1) /\ ~sticky
        THEN [m |-> n, e |-> e]
        ELSE FRound(2 * n, e - 1, sticky)
    ELSE IF n >= Pow2(Precision + 1) THEN
        FRound(n \div 2, e + 1, sticky \/ (n % 2 = 1))
    ELSE \* Precision + 1 bits: the last one is the guard bit
        LET q == n \div 2
            up == (n % 2 = 1) /\ (sticky \/ (q % 2 = 1))
            r == IF up THEN q + 1 ELSE q
        IN  IF r = Pow2(Precision)
            THEN [m |-> Pow2(Precision - 1), e |-> e + 2]
            ELSE [m |-> r, e |-> e + 1]

FFromInt(n) == FRound(n, 0, FALSE)

\* The double nearest to the decimal literal num/den.
FLiteral(num, den) ==
    LET k == Precision + 4
        n == num * Pow2(k)
    IN  FRound(n \div den, 0 - k, (n % den) # 0)

FOne == FFromInt(1)

FMul(a, b) ==
    IF a.m = 0 \/ b.m = 0 THEN FZero
    ELSE FRound(a.m * b.m, a.e + b.e, FALSE)

FAdd(a, b) ==
    IF a.m = 0 THEN b
    ELSE IF b.m = 0 THEN a
    ELSE LET hi == IF a.e >= b.e THEN a ELSE b
             lo == IF a.e >= b.e THEN b ELSE a
             d  == hi.e - lo.e
         IN  IF d > Precision + 2
             THEN FRound(4 * hi.m, hi.e - 2, TRUE)
             ELSE FRound(hi.m * Pow2(d) + lo.m, lo.e, FALSE)

\* b is not zero.
FDiv(a, b) ==
    IF a.m = 0 THEN FZero
    ELSE LET k == Precision + 2
             n == a.m * Pow2(k)
         IN  FRound(n \div b.m, a.e - b.e - k, (n % b.m) # 0)

RECURSIVE ISqrt(_)
ISqrt(n) ==
    IF n < 2 THEN n
    ELSE LET r == 2 * ISqrt(n \div 4)
         IN  IF (r + 1) * (r + 1) <= n THEN r + 1 ELSE r

FSqrt(a) ==
    IF a.m = 0 THEN FZero
    ELSE LET odd == (a.e % 2) # 0
             m0  == IF odd THEN 2 * a.m ELSE a.m
             e0  == IF odd THEN a.e - 1 ELSE a.e
             j   == (Precision + 4) \div 2
             n   == m0 * Pow2(2 * j)
             r   == ISqrt(n)
         IN  FRound(r, (e0 \div 2) - j, r * r # n)

FLess(a, b) ==
    IF b.m = 0 THEN FALSE
    ELSE IF a.m = 0 THEN TRUE
    ELSE a.e < b.e \/ (a.e = b.e /\ a.m < b.m)

FLeq(a, b) == a = b \/ FLess(a, b)

(***************************************************************************)
(* Characters.  A text is a sequence of one-character strings.             *)
(***************************************************************************)
LowerLetters ==
    {"a", "b", "c", "d", "e", "f", "g", "h", "i", "j", "k", "l", "m", "n",
      "o", "p", "q", "r", "s", "t", "u", "v", "w", "x", "y", "z"}
UpperLetters == {"A", "B", "D", "T"}
Digits       == {"0", "1", "2", "3", "4", "5", "6", "7", "8", "9"}
Whitespace   == {" ", "\n", "\t"}

\* Words used by the inputs and by the stop-word lists.
Bean == <<"b", "e", "a", "n">>
Date == <<"d", "a", "t", "e">>
Cat  == <<"c", "a", "t">>
The  == <<"t", "h", "e">>
Sp   == <<" ">>

Over         == <<"o", "v", "e", "r">>
Quick        == <<"q", "u", "i", "c", "k">>
Brown        == <<"b", "r", "o", "w", "n">>
Fox          == <<"f", "o", "x">>
Jumps        == <<"j", "u", "m", "p", "s">>
Lazy         == <<"l", "a", "z", "y">>
Dog          == <<"d", "o", "g">>
Testimonials == <<"t", "e", "s", "t", "i", "m", "o", "n", "i", "a", "l", "s">>

\* "the quick brown fox jumps over the lazy dog testimonials testimonials
\* testimonials"
QuickBrownFox ==
    The \o Sp \o Quick \o Sp \o Brown \o Sp \o Fox \o Sp \o Jumps \o Sp \o Over
        \o Sp \o The \o Sp \o Lazy \o Sp \o Dog \o Sp \o Testimonials
        \o Sp \o Testimonials \o Sp \o Testimonials

\* str.lower()
LowerChar(c) ==
    CASE c = "A" -> "a"
      [] c = "B" -> "b"
      [] c = "D" -> "d"
      [] c = "T" -> "t"
      [] OTHER   -> c

\* Code-point order of the characters that survive preprocess_text.
Collation ==
    <<" ", "0", "1", "2", "3", "4", "5", "6", "7", "8", "9", "a", "b", "c",
      "d", "e", "f", "g", "h", "i", "j", "k", "l", "m", "n", "o", "p", "q",
      "r", "s", "t", "u", "v", "w", "x", "y", "z">>

CharRank(c) == CHOOSE i \in 1..Len(Collation) : Collation[i] = c

RECURSIVE LexLess(_, _)
LexLess(u, v) ==
    IF v = <<>> THEN FALSE
    ELSE IF u = <<>> THEN TRUE
    ELSE IF Head(u) = Head(v) THEN LexLess(Tail(u), Tail(v))
    ELSE CharRank(Head(u)) < CharRank(Head(v))

RECURSIVE MapLower(_)
MapLower(s) ==
    IF s = <<>> THEN <<>> ELSE <<LowerChar(Head(s))>> \o MapLower(Tail(s))

\* re.sub(r'\s+', ' ', text)
RECURSIVE CollapseWhitespace(_)
CollapseWhitespace(s) ==
    IF s = <<>> THEN <<>>
    ELSE IF Head(s) \in Whitespace THEN
        IF Len(s) > 1 /\ s[2] \in Whitespace
        THEN CollapseWhitespace(Tail(s))
        ELSE <<" ">> \o CollapseWhitespace(Tail(s))
    ELSE <<Head(s)>> \o CollapseWhitespace(Tail(s))

\* re.sub(r'[^a-zA-Z0-9\s]', ' ', text)
RECURSIVE ReplaceSpecial(_)
ReplaceSpecial(s) ==
    IF s = <<>> THEN <<>>
    ELSE LET c == Head(s)
             keep == c \in LowerLetters \cup UpperLetters \cup Digits \cup Whitespace
         IN  <<IF keep THEN c ELSE " ">> \o ReplaceSpecial(Tail(s))

RECURSIVE StripLeft(_)
StripLeft(s) ==
    IF s # <<>> /\ Head(s) \in Whitespace THEN StripLeft(Tail(s)) ELSE s

RECURSIVE StripRight(_)
StripRight(s) ==
    IF s # <<>> /\ s[Len(s)] \in Whitespace
    THEN StripRight(SubSeq(s, 1, Len(s) - 1)) ELSE s

\* str.strip()
Strip(s) == StripRight(StripLeft(s))

\* preprocess_text without its second `re.sub(r'\s+', ' ', text)`
preprocess_text_collapsing_once(text) ==
    IF text = <<>> THEN <<>>
    ELSE Strip(ReplaceSpecial(CollapseWhitespace(MapLower(text))))

\* similarity_checker.preprocess_text, on a str
preprocess_text(text) ==
    IF text = <<>> THEN <<>>
    ELSE Strip(CollapseWhitespace(ReplaceSpecial(CollapseWhitespace(MapLower(text)))))

(***************************************************************************)
(* TfidfVectorizer(stop_words='english', ngram_range=(1, 2)) fitted on the *)
(* two documents, and cosine_similarity of its two rows.                   *)
(***************************************************************************)
\* The words of sklearn's English stop-word list among the words of two and
\* more letters that the compared texts are made of.
EnglishStopWords ==
    { <<"a", "t">>, <<"b", "e">>, <<"a", "n">>, The, Over,
      <<"a", "n", "d">>, <<"h", "e">>, <<"h", "a", "d">>, <<"t", "h", "e", "n">> }

WordChars == LowerLetters \cup UpperLetters \cup Digits

\* Maximal runs of word characters, in order: <<run, ...>>.
RECURSIVE WordRuns(_, _)
WordRuns(s, cur) ==
    IF s = <<>> THEN (IF cur = <<>> THEN <<>> ELSE <<cur>>)
    ELSE IF Head(s) \in WordChars THEN WordRuns(Tail(s), Append(cur, Head(s)))
    ELSE (IF cur = <<>> THEN <<>> ELSE <<cur>>) \o WordRuns(Tail(s), <<>>)

\* token_pattern r"(?u)\b\w\w+\b" on the lowercased document, stop words removed
Tokens(doc) ==
    SelectSeq(WordRuns(MapLower(doc), <<>>),
              LAMBDA w : Len(w) >= 2 /\ w \notin EnglishStopWords)

\* Unigrams followed by bigrams of the token sequence.
NGrams(toks) ==
    toks \o [i \in 1..(IF Len(toks) = 0 THEN 0 ELSE Len(toks) - 1)
                |-> toks[i] \o <<" ">> \o toks[i + 1]]

Count(grams, g) == Cardinality({i \in 1..Len(grams) : grams[i] = g})

\* The vocabulary in feature-index order (sorted).
RECURSIVE SortedVocabulary(_)
SortedVocabulary(S) ==
    IF S = {} THEN <<>>
    ELSE LET least == CHOOSE g \in S : \A h \in S \ {g} : LexLess(g, h)
         IN  <<least>> \o SortedVocabulary(S \ {least})

\* TfidfTransformer.idf_ for n_samples = 2: ln(3 / (1 + df)) + 1
LnThreeHalves == FLiteral(4055, 10000)
Idf(df) == IF df = 2 THEN FOne ELSE FAdd(LnThreeHalves, FOne)

RECURSIVE SumSquares(_, _)
SumSquares(row, acc) ==
    IF row = <<>> THEN acc
    ELSE SumSquares(Tail(row), FAdd(acc, FMul(Head(row), Head(row))))

\* sklearn normalize(norm='l2') of one row
NormalizeL2(row) ==
    LET sum == SumSquares(row, FZero)
    IN  IF sum.m = 0 THEN row
        ELSE LET norm == FSqrt(sum)
             IN  [j \in 1..Len(row) |-> FDiv(row[j], norm)]

RECURSIVE DotProduct(_, _, _)
DotProduct(x, y, acc) ==
    IF x = <<>> THEN acc
    ELSE DotProduct(Tail(x), Tail(y), FAdd(acc, FMul(Head(x), Head(y))))

TfidfRow(grams, other, vocab) ==
    NormalizeL2([j \in 1..Len(vocab) |->
        LET df == (IF Count(grams, vocab[j]) > 0 THEN 1 ELSE 0)
                  + (IF Count(other, vocab[j]) > 0 THEN 1 ELSE 0)
        IN  FMul(FFromInt(Count(grams, vocab[j])), Idf(df))])

\* cosine_similarity(tfidf_matrix[0:1], tfidf_matrix[1:2])[0][0]
cosine_similarity(row1, row2) ==
    DotProduct(NormalizeL2(row1), NormalizeL2(row2), FZero)

\* A call's outcome: a returned value, or an exception that left the call.
Return(v) == [raised |-> FALSE, val |-> v]
Raise     == [raised |-> TRUE, val |-> FZero]

\* vectorizer.fit_transform([a, b]) then cosine_similarity; raises
\* ValueError("empty vocabulary") when no feature is left.
VectorizeAndCompare(a, b) ==
    LET g1 == NGrams(Tokens(a))
        g2 == NGrams(Tokens(b))
        S  == {g1[i] : i \in 1..Len(g1)} \cup {g2[i] : i \in 1..Len(g2)}
        vocab == SortedVocabulary(S)
    IN  IF S = {} THEN Raise
        ELSE Return(cosine_similarity(TfidfRow(g1, g2, vocab), TfidfRow(g2, g1, vocab)))

(***************************************************************************)
(* Python values held by record fields: a str, None, an int, or a dict     *)
(* (its values in insertion order).                                        *)
(***************************************************************************)
PyStr(s)      == [t |-> "str",  s |-> s,    n |-> 0, items |-> <<>>]
PyNone        == [t |-> "none", s |-> <<>>, n |-> 0, items |-> <<>>]
PyInt(n)      == [t |-> "int",  s |-> <<>>, n |-> n, items |-> <<>>]
PyDict(items) == [t |-> "dict", s |-> <<>>, n |-> 0, items |-> items]

\* bool(v)
Truthy(v) ==
    CASE v.t = "str"  -> v.s # <<>>
      [] v.t = "none" -> FALSE
      [] v.t = "int"  -> v.n # 0
      [] v.t = "dict" -> v.items # <<>>
      [] v.t = "list" -> v.items # <<>>
      [] v.t = "bool" -> v.n # 0

\* calculate_text_similarity without its try/except around the vectoriser
calculate_text_similarity_unguarded(text1, text2) ==
    IF ~Truthy(text1) \/ ~Truthy(text2) THEN Return(FZero)
    ELSE IF text1.t # "str" \/ text2.t # "str" THEN Raise
    ELSE LET text1_clean == preprocess_text(text1.s)
             text2_clean == preprocess_text(text2.s)
         IN  IF text1_clean = <<>> \/ text2_clean = <<>> THEN Return(FZero)
             ELSE VectorizeAndCompare(text1_clean, text2_clean)

\* calculate_text_similarity scoring two empty texts as identical
calculate_text_similarity_empty_equal(text1, text2) ==
    IF ~Truthy(text1) /\ ~Truthy(text2) THEN Return(FOne)
    ELSE IF ~Truthy(text1) \/ ~Truthy(text2) THEN Return(FZero)
    ELSE IF text1.t # "str" \/ text2.t # "str" THEN Raise
    ELSE LET text1_clean == preprocess_text(text1.s)
             text2_clean == preprocess_text(text2.s)
         IN  IF text1_clean = <<>> \/ text2_clean = <<>> THEN Return(FZero)
             ELSE LET r == VectorizeAndCompare(text1_clean, text2_clean)
                  IN  IF r.raised THEN Return(FZero) ELSE r

\* similarity_checker.calculate_text_similarity; preprocess_text calls
\* text.lower() outside the try block, which raises on a non-str.
calculate_text_similarity(text1, text2) ==
    IF ~Truthy(text1) \/ ~Truthy(text2) THEN Return(FZero)
    ELSE IF text1.t # "str" \/ text2.t # "str" THEN Raise
    ELSE LET text1_clean == preprocess_text(text1.s)
             text2_clean == preprocess_text(text2.s)
         IN  IF text1_clean = <<>> \/ text2_clean = <<>> THEN Return(FZero)
             ELSE LET r == VectorizeAndCompare(text1_clean, text2_clean)
                  IN  IF r.raised THEN Return(FZero) ELSE r

(***************************************************************************)
(* json.loads, for the JSON texts the model's characters can spell:        *)
(* strings, unsigned integers, null, true, false, arrays and objects.      *)
(***************************************************************************)
RECURSIVE SkipWhitespace(_, _)
SkipWhitespace(s, i) ==
    IF i <= Len(s) /\ s[i] \in Whitespace THEN SkipWhitespace(s, i + 1) ELSE i

JsonFail == [ok |-> FALSE, next |-> 0, val |-> PyNone]

\* The characters of a string from index i up to its closing double quote,
\* escapes decoded; a raw control character or a bad escape fails.
RECURSIVE JsonStringBody(_, _, _)
JsonStringBody(s, i, acc) ==
    IF i > Len(s) \/ s[i] = "\n" \/ s[i] = "\t" THEN JsonFail
    ELSE IF s[i] = "\"" THEN [ok |-> TRUE, next |-> i + 1, val |-> PyStr(acc)]
    ELSE IF s[i] = "\\"
         THEN IF i + 1 > Len(s) THEN JsonFail
              ELSE CASE s[i + 1] = "n"  -> JsonStringBody(s, i + 2, Append(acc, "\n"))
                     [] s[i + 1] = "t"  -> JsonStringBody(s, i + 2, Append(acc, "\t"))
                     [] s[i + 1] = "\"" -> JsonStringBody(s, i + 2, Append(acc, "\""))
                     [] s[i + 1] = "\\" -> JsonStringBody(s, i + 2, Append(acc, "\\"))
                     [] OTHER -> JsonFail
    ELSE JsonStringBody(s, i + 1, Append(acc, s[i]))

JsonString(s, i) ==
    IF i > Len(s) \/ s[i] # "\"" THEN JsonFail
    ELSE JsonStringBody(s, i + 1, <<>>)

RECURSIVE DigitsEnd(_, _)
DigitsEnd(s, i) ==
    IF i <= Len(s) /\ s[i] \in Digits THEN DigitsEnd(s, i + 1) ELSE i

DigitValue(c) == CharRank(c) - 2

RECURSIVE DecimalValue(_, _)
DecimalValue(ds, acc) ==
    IF ds = <<>> THEN acc ELSE DecimalValue(Tail(ds), 10 * acc + DigitValue(Head(ds)))

JsonNumber(s, i) ==
    LET j == DigitsEnd(s, i)
    IN  IF j = i \/ (j > i + 1 /\ s[i] = "0") THEN JsonFail
        ELSE [ok |-> TRUE, next |-> j, val |-> PyInt(DecimalValue(SubSeq(s, i, j - 1), 0))]

\* dict semantics: a repeated key keeps its first position and its last value.
DictValues(pairs) ==
    LET firsts == SelectSeq([i \in 1..Len(pairs) |-> i],
                     LAMBDA i : \A j \in 1..(i - 1) : pairs[j][1] # pairs[i][1])
        last(k) == CHOOSE j \in 1..Len(pairs) :
                     /\ pairs[j][1] = k
                     /\ \A h \in (j + 1)..Len(pairs) : pairs[h][1] # k
    IN  [x \in 1..Len(firsts) |-> pairs[last(pairs[firsts[x]][1])][2]]

PyList(items) == [t |-> "list", s |-> <<>>, n |-> 0, items |-> items]
PyBool(b)     == [t |-> "bool", s |-> <<>>, n |-> IF b THEN 1 ELSE 0, items |-> <<>>]

\* The literal word (null, true, false) at index i.
JsonLiteral(s, i, word, val) ==
    IF i + Len(word) - 1 <= Len(s) /\ SubSeq(s, i, i + Len(word) - 1) = word
    THEN [ok |-> TRUE, next |-> i + Len(word), val |-> val]
    ELSE JsonFail

RECURSIVE JsonValue(_, _), JsonMembers(_, _, _), JsonElements(_, _, _)

\* Members from index i on, up to and including the closing brace:
\* [ok, next, pairs], pairs a sequence of <<key, value>>.
JsonMembers(s, i, pairs) ==
    LET key   == JsonString(s, SkipWhitespace(s, i))
        colon == SkipWhitespace(s, key.next)
        value == JsonValue(s, SkipWhitespace(s, colon + 1))
        after == SkipWhitespace(s, value.next)
        bad   == [ok |-> FALSE, next |-> 0, pairs |-> <<>>]
    IN  IF ~key.ok \/ colon > Len(s) \/ s[colon] # ":" THEN bad
        ELSE IF ~value.ok \/ after > Len(s) THEN bad
        ELSE IF s[after] = "}"
             THEN [ok |-> TRUE, next |-> after + 1,
                   pairs |-> Append(pairs, <<key.val.s, value.val>>)]
        ELSE IF s[after] = ","
             THEN JsonMembers(s, after + 1, Append(pairs, <<key.val.s, value.val>>))
        ELSE bad

\* Elements from index i on, up to and including the closing bracket.
JsonElements(s, i, acc) ==
    LET value == JsonValue(s, SkipWhitespace(s, i))
        after == SkipWhitespace(s, value.next)
    IN  IF ~value.ok \/ after > Len(s) THEN JsonFail
        ELSE IF s[after] = "]"
             THEN [ok |-> TRUE, next |-> after + 1,
                   val |-> PyList(Append(acc, value.val))]
        ELSE IF s[after] = ","
             THEN JsonElements(s, after + 1, Append(acc, value.val))
        ELSE JsonFail

\* The object whose opening brace is at index i.
JsonObject(s, i) ==
    LET first == SkipWhitespace(s, i + 1)
    IN  IF first <= Len(s) /\ s[first] = "}"
        THEN [ok |-> TRUE, next |-> first + 1, val |-> PyDict(<<>>)]
        ELSE LET m == JsonMembers(s, first, <<>>)
             IN  IF m.ok
                 THEN [ok |-> TRUE, next |-> m.next, val |-> PyDict(DictValues(m.pairs))]
                 ELSE JsonFail

\* The array whose opening bracket is at index i.
JsonArray(s, i) ==
    LET first == SkipWhitespace(s, i + 1)
    IN  IF first <= Len(s) /\ s[first] = "]"
        THEN [ok |-> TRUE, next |-> first + 1, val |-> PyList(<<>>)]
        ELSE JsonElements(s, first, <<>>)

\* The value that starts at index i.
JsonValue(s, i) ==
    IF i > Len(s) THEN JsonFail
    ELSE CASE s[i] = "\"" -> JsonString(s, i)
           [] s[i] = "{"  -> JsonObject(s, i)
           [] s[i] = "["  -> JsonArray(s, i)
           [] s[i] = "n"  -> JsonLiteral(s, i, <<"n", "u", "l", "l">>, PyNone)
           [] s[i] = "t"  -> JsonLiteral(s, i, <<"t", "r", "u", "e">>, PyBool(TRUE))
           [] s[i] = "f"  -> JsonLiteral(s, i, <<"f", "a", "l", "s", "e">>, PyBool(FALSE))
           [] OTHER       -> JsonNumber(s, i)

\* json.loads(s): the value, or JSONDecodeError when s is not one JSON text
\* with nothing but whitespace around it.
\* A value v read from s is the whole of s, whitespace apart.
WholeText(s, v) ==
    IF v.ok /\ SkipWhitespace(s, v.next) = Len(s) + 1
    THEN [ok |-> TRUE, val |-> v.val]
    ELSE [ok |-> FALSE, val |-> PyNone]

JsonLoads(s) == WholeText(s, JsonValue(s, SkipWhitespace(s, 1)))

\* " ".join(text_parts)
RECURSIVE JoinWithSpace(_)
JoinWithSpace(parts) ==
    IF parts = <<>> THEN <<>>
    ELSE IF Len(parts) = 1 THEN parts[1]
    ELSE parts[1] \o <<" ">> \o JoinWithSpace(Tail(parts))

\* extract_results_text joining the text of every value, numbers included
JoinAllValues(items) ==
    JoinWithSpace([i \in 1..Len(items) |->
                     IF items[i].t = "str" THEN items[i].s
                     ELSE <<Collation[(items[i].n % 10) + 2]>>])

\* The str values of a dict, in its order, joined with spaces.
JoinStringValues(items) ==
    LET strs == SelectSeq(items, LAMBDA v : v.t = "str")
    IN  JoinWithSpace([i \in 1..Len(strs) |-> strs[i].s])

\* str(n) for n >= 0
RECURSIVE DecimalText(_)
DecimalText(n) ==
    IF n < 10 THEN <<Collation[n + 2]>>
    ELSE DecimalText(n \div 10) \o <<Collation[(n % 10) + 2]>>

\* What a call of extract_results_text leaves: the str returned, or an
\* exception.
Extracted(text) == [raised |-> FALSE, text |-> text]
ExtractRaise    == [raised |-> TRUE, text |-> <<>>]

\* parsed.values() with no handler for the AttributeError
ValuesOfParsedUnguarded(results, parsed) ==
    IF ~parsed.ok THEN Extracted(results.s)
    ELSE IF parsed.val.t = "dict"
         THEN Extracted(JoinStringValues(parsed.val.items))
    ELSE ExtractRaise

\* extract_results_text with `except json.JSONDecodeError` as its only handler
extract_results_text_call_without_outer_except(results) ==
    IF ~Truthy(results) THEN Extracted(<<>>)
    ELSE CASE results.t = "str" ->
                ValuesOfParsedUnguarded(results, JsonLoads(results.s))
           [] results.t = "dict" -> Extracted(JoinStringValues(results.items))
           [] OTHER -> Extracted(DecimalText(results.n))

\* The lines after json.loads: a JSONDecodeError returns str(results) (inner
\* except); the str values of a parsed dict are joined; the AttributeError
\* of any other parsed value returns str(results) (outer except).
ValuesOfParsed(results, parsed) ==
    IF ~parsed.ok THEN Extracted(results.s)
    ELSE IF parsed.val.t = "dict"
         THEN Extracted(JoinStringValues(parsed.val.items))
    ELSE Extracted(results.s)

\* similarity_checker.extract_results_text.  json.loads raising
\* JSONDecodeError is handled by the inner except (line 165); a parsed value
\* that is not a dict has no .values(), and the AttributeError is handled by
\* the outer except (line 177); both return str(results).
extract_results_text_call(results) ==
    IF ~Truthy(results) THEN Extracted(<<>>)
    ELSE CASE results.t = "str" ->
                ValuesOfParsed(results, JsonLoads(results.s))
           [] results.t = "dict" -> Extracted(JoinStringValues(results.items))
           [] OTHER -> Extracted(DecimalText(results.n))

\* The str extract_results_text returns to calculate_insight_similarity.
extract_results_text(results) == extract_results_text_call(results).text

(***************************************************************************)
(* json.dumps of a dict with str keys and str or int values, as            *)
(* insight_formatter encodes the results of a structured insight.  A dict  *)
(* is a sequence of <<key, value>> pairs with distinct keys.               *)
(***************************************************************************)
EscapeChar(c) ==
    CASE c = "\"" -> <<"\\", "\"">>
      [] c = "\\" -> <<"\\", "\\">>
      [] c = "\n" -> <<"\\", "n">>
      [] c = "\t" -> <<"\\", "t">>
      [] OTHER    -> <<c>>

RECURSIVE Escape(_)
Escape(q) == IF q = <<>> THEN <<>> ELSE EscapeChar(Head(q)) \o Escape(Tail(q))

JsonDumpsString(q) == <<"\"">> \o Escape(q) \o <<"\"">>

JsonDumpsValue(v) ==
    IF v.t = "str" THEN JsonDumpsString(v.s) ELSE DecimalText(v.n)

RECURSIVE JsonDumpsMembers(_)
JsonDumpsMembers(pairs) ==
    IF pairs = <<>> THEN <<>>
    ELSE LET member == JsonDumpsString(pairs[1][1]) \o <<":", " ">>
                          \o JsonDumpsValue(pairs[1][2])
         IN  IF Len(pairs) = 1 THEN member
             ELSE member \o <<",", " ">> \o JsonDumpsMembers(Tail(pairs))

JsonDumps(pairs) == <<"{">> \o JsonDumpsMembers(pairs) \o <<"}">>

\* The dict as the value extract_results_text receives.
DictOf(pairs) == PyDict([i \in 1..Len(pairs) |-> pairs[i][2]])

(***************************************************************************)
(* An insight record: a dict; a key the dict lacks is PyAbsent in the      *)
(* model and reads as the default of dict.get.                             *)
(***************************************************************************)
PyAbsent == [t |-> "absent", s |-> <<>>, n |-> 0, items |-> <<>>]

\* The key of a structured insight that holds the text the deduplication
\* core looks for under key.
UpperKey(key) ==
    CASE key = "insight" -> "INSIGHT"
      [] key = "results" -> "RESULTS"
      [] OTHER           -> "LIMITATIONS_CONTEXT"

\* insight.get reading the key of the structured insight when the lower-case
\* key is absent
Get_in_either_case(insight, key) ==
    IF insight[key] # PyAbsent THEN insight[key]
    ELSE IF insight[UpperKey(key)] # PyAbsent THEN insight[UpperKey(key)]
    ELSE PyStr(<<>>)

\* insight.get(key, '')
Get(insight, key) == IF insight[key] = PyAbsent THEN PyStr(<<>>) ELSE insight[key]

WeightInsight     == FLiteral(6, 10)
WeightResults     == FLiteral(25, 100)
WeightLimitations == FLiteral(15, 100)

\* calculate_insight_similarity comparing the results of the first record
\* with the limitations of the second
calculate_insight_similarity_crossed(insight1, insight2) ==
    LET insight_similarity ==
            calculate_text_similarity(Get(insight1, "insight"), Get(insight2, "insight"))
        results1 == extract_results_text(Get(insight1, "results"))
        results_similarity ==
            calculate_text_similarity(PyStr(results1), Get(insight2, "limitations"))
        limitations_similarity ==
            calculate_text_similarity(Get(insight1, "limitations"),
                                      Get(insight2, "limitations"))
    IN  IF insight_similarity.raised \/ results_similarity.raised
           \/ limitations_similarity.raised
        THEN FZero
        ELSE FAdd(FAdd(FMul(insight_similarity.val, WeightInsight),
                       FMul(results_similarity.val, WeightResults)),
                  FMul(limitations_similarity.val, WeightLimitations))

\* calculate_insight_similarity adding the three similarities unweighted
calculate_insight_similarity_unweighted(insight1, insight2) ==
    LET insight_similarity ==
            calculate_text_similarity(Get(insight1, "insight"), Get(insight2, "insight"))
        results_similarity ==
            calculate_text_similarity(
                PyStr(extract_results_text(Get(insight1, "results"))),
                PyStr(extract_results_text(Get(insight2, "results"))))
        limitations_similarity ==
            calculate_text_similarity(Get(insight1, "limitations"),
                                      Get(insight2, "limitations"))
    IN  IF insight_similarity.raised \/ results_similarity.raised
           \/ limitations_similarity.raised
        THEN FZero
        ELSE FAdd(FAdd(insight_similarity.val, results_similarity.val),
                  limitations_similarity.val)

\* similarity_checker.calculate_insight_similarity: an exception of any
\* sub-computation is caught by the one try block around the whole body.
calculate_insight_similarity(insight1, insight2) ==
    LET insight_similarity ==
            calculate_text_similarity(Get(insight1, "insight"), Get(insight2, "insight"))
        results1 == extract_results_text(Get(insight1, "results"))
        results2 == extract_results_text(Get(insight2, "results"))
        results_similarity ==
            calculate_text_similarity(PyStr(results1), PyStr(results2))
        limitations_similarity ==
            calculate_text_similarity(Get(insight1, "limitations"),
                                      Get(insight2, "limitations"))
    IN  IF insight_similarity.raised \/ results_similarity.raised
           \/ limitations_similarity.raised
        THEN FZero
        ELSE FAdd(FAdd(FMul(insight_similarity.val, WeightInsight),
                       FMul(results_similarity.val, WeightResults)),
                  FMul(limitations_similarity.val, WeightLimitations))

(***************************************************************************)
(* supabase_lookup.extract_keywords_from_insight                           *)
(***************************************************************************)
AsciiLetters == LowerLetters \cup UpperLetters

\* re.findall(r'\b[a-zA-Z]{n,}\b', text.lower()): the maximal runs of word
\* characters that are letters only and at least n long.
LetterRuns(text, n) ==
    SelectSeq(WordRuns(MapLower(text), <<>>),
              LAMBDA w : Len(w) >= n /\ \A i \in 1..Len(w) : w[i] \in AsciiLetters)

\* The function's stop_words set.
KeywordStopWords ==
    { <<"t", "h", "e">>, <<"a", "n", "d">>, <<"f", "o", "r">>,
      <<"a", "r", "e">>, <<"b", "u", "t">>, <<"n", "o", "t">>,
      <<"y", "o", "u">>, <<"a", "l", "l">>, <<"c", "a", "n">>,
      <<"h", "a", "d">>, <<"h", "e", "r">>, <<"w", "a", "s">>,
      <<"o", "n", "e">>, <<"o", "u", "r">>, <<"o", "u", "t">>,
      <<"d", "a", "y">>, <<"g", "e", "t">>, <<"h", "a", "s">>,
      <<"h", "i", "m">>, <<"h", "i", "s">>, <<"h", "o", "w">>,
      <<"m", "a", "n">>, <<"n", "e", "w">>, <<"n", "o", "w">>,
      <<"o", "l", "d">>, <<"s", "e", "e">>, <<"t", "w", "o">>,
      <<"w", "a", "y">>, <<"w", "h", "o">>, <<"b", "o", "y">>,
      <<"d", "i", "d">>, <<"i", "t", "s">>, <<"l", "e", "t">>,
      <<"p", "u", "t">>, <<"s", "a", "y">>, <<"s", "h", "e">>,
      <<"t", "o", "o">>, <<"u", "s", "e">> }

\* Counter(words).most_common(k): by falling count, first occurrence first
\* among equal counts.
RECURSIVE MostCommon(_, _, _)
MostCommon(words, k, taken) ==
    LET left == SelectSeq(words, LAMBDA w : w \notin taken)
    IN  IF k = 0 \/ left = <<>> THEN <<>>
        ELSE LET best == CHOOSE i \in 1..Len(left) :
                            /\ \A j \in 1..Len(left) :
                                   Count(words, left[j]) <= Count(words, left[i])
                            /\ \A j \in 1..(i - 1) :
                                   Count(words, left[j]) < Count(words, left[i])
             IN  <<left[best]>> \o MostCommon(words, k - 1, taken \cup {left[best]})

SeqToSet(q) == {q[i] : i \in 1..Len(q)}

\* extract_keywords_from_insight keeping every meaningful word of the insight
\* text
extract_keywords_uncapped(insight) ==
    LET insight_text == Get(insight, "insight")
        limitations  == Get(insight, "limitations")
        meaningful_words ==
            SelectSeq(LetterRuns(insight_text.s, 3),
                      LAMBDA w : w \notin KeywordStopWords /\ Len(w) > 3)
    IN  IF (Truthy(insight_text) /\ insight_text.t # "str")
           \/ (Truthy(limitations) /\ limitations.t # "str")
        THEN {}
        ELSE SeqToSet(meaningful_words) \cup SeqToSet(LetterRuns(limitations.s, 4))

\* The set of keywords; a non-str field raises inside the try block and the
\* function returns [].
extract_keywords_from_insight(insight) ==
    LET insight_text == Get(insight, "insight")
        limitations  == Get(insight, "limitations")
        words == LetterRuns(insight_text.s, 3)
        meaningful_words ==
            SelectSeq(words, LAMBDA w : w \notin KeywordStopWords /\ Len(w) > 3)
        from_insight ==
            IF Truthy(insight_text) THEN SeqToSet(MostCommon(meaningful_words, 5, {}))
            ELSE {}
        limitation_words == LetterRuns(limitations.s, 4)
        from_limitations ==
            IF Truthy(limitations)
            THEN SeqToSet(SubSeq(limitation_words, 1,
                                 IF Len(limitation_words) < 3
                                 THEN Len(limitation_words) ELSE 3))
            ELSE {}
    IN  IF (Truthy(insight_text) /\ insight_text.t # "str")
           \/ (Truthy(limitations) /\ limitations.t # "str")
        THEN {}
        ELSE from_insight \cup from_limitations

(***************************************************************************)
(* supabase_lookup: the fetch functions.  A storage call (creating the     *)
(* admin client, then executing the query) either raises or replies with   *)
(* rows.                                                                   *)
(***************************************************************************)
KeywordLimit == 100
RecentLimit  == 500

Rows(v)   == [raised |-> FALSE, val |-> v]
RaiseRows == [raised |-> TRUE, val |-> <<>>]

Prefix(q, n) == SubSeq(q, 1, IF Len(q) < n THEN Len(q) ELSE n)

\* fetch_insights_by_keywords going on to the fallback fetch when the query
\* returns no row
KeywordQueryResult_retrying_when_empty(reply) ==
    IF reply.ok /\ reply.rows # <<>> THEN [done |-> TRUE, out |-> Rows(reply.rows)]
    ELSE [done |-> FALSE, out |-> Rows(<<>>)]

\* fetch_insights_by_keywords, the text_search query and its except clause:
\* done is FALSE when the function goes on to the fallback fetch.
KeywordQueryResult(reply) ==
    IF reply.ok THEN [done |-> TRUE, out |-> Rows(reply.rows)]
    ELSE [done |-> FALSE, out |-> Rows(<<>>)]

RECURSIVE IsInfix(_, _)
IsInfix(k, text) ==
    IF Len(k) > Len(text) THEN FALSE
    ELSE SubSeq(text, 1, Len(k)) = k \/ IsInfix(k, Tail(text))

\* any(keyword.lower() in insight_text for keyword in keywords)
MatchesKeyword(row, keywords) ==
    \E k \in keywords : IsInfix(MapLower(k), MapLower(Get(row, "insight").s))

\* The loop over all_insights.data.  It reads the rows up to the one at which
\* the rows kept reach limit (all rows when they never do) and keeps those
\* that match; a row read whose insight is not a str raises at .lower() and
\* the except clause returns [].
FallbackScan(rows, keywords, limit) ==
    LET matches == [j \in 1..Len(rows) |-> MatchesKeyword(rows[j], keywords)]
        kept(i) == Cardinality({j \in 1..i : matches[j]})
        stops   == {i \in 1..Len(rows) : matches[i] /\ kept(i) >= limit}
        last    == IF stops = {} THEN Len(rows)
                   ELSE CHOOSE i \in stops : \A j \in stops : i <= j
    IN  IF \E j \in 1..last : Get(rows[j], "insight").t # "str" THEN Rows(<<>>)
        ELSE Rows(SelectSeq(SubSeq(rows, 1, last),
                            LAMBDA r : MatchesKeyword(r, keywords)))

\* The fallback returning the first rows fetched, matching or not
FallbackResult_unfiltered(keywords, reply) ==
    IF ~reply.ok THEN Rows(<<>>) ELSE Rows(Prefix(reply.rows, KeywordLimit))

\* fetch_insights_by_keywords, the fallback in the except clause
FallbackResult(keywords, reply) ==
    IF ~reply.ok THEN Rows(<<>>)
    ELSE FallbackScan(reply.rows, keywords, KeywordLimit)

\* fetch_recent_insights letting the storage error through
fetch_recent_insights_unguarded(reply) ==
    IF reply.ok THEN Rows(reply.rows) ELSE RaiseRows

\* fetch_recent_insights
fetch_recent_insights(reply) ==
    IF reply.ok THEN Rows(reply.rows) ELSE Rows(<<>>)

(***************************************************************************)
(* Inputs.                                                                 *)
(***************************************************************************)
\* Most words of a generated text.
MaxWords == 2

\* Building blocks of the texts: two content words, one of them capitalised
\* and followed by punctuation, an English stop word, a one-letter word and a
\* punctuation mark.
Words == { Bean, <<"D", "a", "t", "e", "!">>, The, <<"b">>, <<"?">> }

\* The texts of at most n words, separated by single spaces.
RECURSIVE TextsOf(_)
TextsOf(n) ==
    IF n = 0 THEN {<<>>}
    ELSE LET shorter == TextsOf(n - 1)
         IN  shorter \cup Words
                \cup {t \o Sp \o w : t \in shorter \ {<<>>}, w \in Words}

Texts == TextsOf(MaxWords)

\* Field values of the records compared by calculate_insight_similarity.
InsightValues ==
    { PyStr(<<>>), PyStr(Bean), PyStr(Bean \o Sp \o Date), PyStr(<<"?", "!">>) }
ResultsValues ==
    { PyStr(<<>>), PyStr(Bean \o Sp \o Date), PyStr(The),
      PyDict(<<PyStr(Bean), PyInt(34), PyStr(Date)>>) }
LimitationsValues ==
    { PyStr(<<>>), PyNone, PyInt(3),
      PyStr(Bean \o Sp \o Date \o Sp \o Cat \o Sp \o <<"h", "a", "t">>) }

Insights ==
    { [id |-> 0, insight |-> i, results |-> r, limitations |-> l,
       INSIGHT |-> PyAbsent, RESULTS |-> PyAbsent,
       LIMITATIONS_CONTEXT |-> PyAbsent] :
        i \in InsightValues, r \in ResultsValues, l \in LimitationsValues }

\* A record: the keys the deduplication core reads, the row's id, and the
\* keys of a structured insight, of which batch_check_duplicates reads INSIGHT
\* for its message.
Record(id, i, r, l) ==
    [id |-> id, insight |-> i, results |-> r, limitations |-> l,
     INSIGHT |-> PyAbsent, RESULTS |-> PyAbsent, LIMITATIONS_CONTEXT |-> PyAbsent]

\* A record as structure_single_content returns it: sanitize_insight_data
\* keeps the REQUIRED_FIELDS only, each string field as a str.
Structured(i, r, l) ==
    [Record(0, PyAbsent, PyAbsent, PyAbsent)
        EXCEPT !.INSIGHT = PyStr(i), !.RESULTS = PyStr(r),
               !.LIMITATIONS_CONTEXT = PyStr(l)]

\* The record with value v under the key INSIGHT.
WithUpper(rec, v) == [rec EXCEPT !.INSIGHT = v]

\* Python's None where a record is expected.
NoneRecord == Record(0 - 1, PyAbsent, PyAbsent, PyAbsent)

\* Rows the insights table may hold: two with the same text, and a third.
StoredRows ==
    { Record(1, PyStr(Bean \o Sp \o Date), PyStr(Bean), PyStr(<<>>)),
      Record(2, PyStr(Bean \o Sp \o Date), PyStr(Bean), PyStr(<<>>)),
      Record(3, PyStr(Cat), PyStr(<<>>), PyStr(<<>>)) }

\* Records handed to deduplication (not yet stored: id 0).
NewInsights ==
    { Record(0, PyStr(Bean \o Sp \o Date), PyStr(Bean), PyStr(<<>>)),
      Record(0, PyStr(<<"B", "e", "a", "n", "!">>), PyStr(<<>>), PyStr(<<>>)),
      Record(0, PyStr(Cat), PyStr(<<>>), PyStr(<<>>)),
      Record(0, PyStr(<<"?", "!">>), PyStr(<<>>), PyStr(<<>>)) }

\* Most rows of the insights table, and most candidates handed to
\* is_duplicate_insight by a direct caller.
MaxCorpus     == 2
MaxCandidates == 2

Corpora == {c \in SUBSET StoredRows : Cardinality(c) <= MaxCorpus}

CandidateLists ==
    UNION {[1..n -> StoredRows] : n \in 0..MaxCandidates}

\* Thresholds a direct caller passes: 0, the default 0.8, and 1.5.
DefaultThreshold == FLiteral(8, 10)
Thresholds == {FZero, DefaultThreshold, FLiteral(15, 10)}

\* All orders in which the rows of S can be listed.
RECURSIVE Orderings(_)
Orderings(S) ==
    IF S = {} THEN {<<>>}
    ELSE UNION {{<<r>> \o q : q \in Orderings(S \ {r})} : r \in S}

\* Rows by falling id: order('id', desc=True).  The rows above the middle of
\* the range of ids come first, then the others, each part in the same way.
RECURSIVE ByIdDescending(_)
ByIdDescending(S) ==
    IF S = {} THEN <<>>
    ELSE LET top    == CHOOSE r \in S : \A o \in S : o.id <= r.id
             bottom == CHOOSE r \in S : \A o \in S : r.id <= o.id
             middle == (top.id + bottom.id) \div 2
         IN  IF top.id = bottom.id
             THEN <<top>> \o ByIdDescending(S \ {top})
             ELSE ByIdDescending({r \in S : r.id > middle})
                    \o ByIdDescending({r \in S : r.id <= middle})

\* Replies of the storage collaborator to the three queries on table.
Failure == [ok |-> FALSE, rows |-> <<>>]
Reply(rows) == [ok |-> TRUE, rows |-> rows]

Reverse(q) == [i \in 1..Len(q) |-> q[Len(q) + 1 - i]]

\* A table whose orders and subsets are all listed; of a larger table the
\* replies list the rows by falling or by rising id only.
Enumerable(table) == Cardinality(table) <= Cardinality(StoredRows)

Listings(table) ==
    IF Enumerable(table) THEN Orderings(table)
    ELSE LET falling == ByIdDescending(table) IN {falling, Reverse(falling)}

\* text_search(...).limit(limit): some rows of the table, the full-text match
\* being the collaborator's; at most limit of them, in no stated order.
TextSearchReplies(table, limit) ==
    IF Enumerable(table)
    THEN {Reply(q) : q \in {o \in UNION {Orderings(sub) : sub \in SUBSET table} :
                              Len(o) <= limit}}
    ELSE {Reply(Prefix(l, k)) : l \in Listings(table), k \in {0, limit}}

\* select('*').limit(limit): limit rows of the table (all when it has fewer),
\* no order being asked for.
UnorderedReplies(table, limit) ==
    IF Enumerable(table)
    THEN {Reply(q) : q \in UNION {Orderings(sub) :
            sub \in {x \in SUBSET table :
                       Cardinality(x) = (IF Cardinality(table) < limit
                                         THEN Cardinality(table) ELSE limit)}}}
    ELSE {Reply(Prefix(l, limit)) : l \in Listings(table)}

\* select('*').order('id', desc=True).limit(limit)
RecentReply(table, limit) == Reply(Prefix(ByIdDescending(table), limit))

(***************************************************************************)
(* web_frontend/app.py: the global pipeline_status and the threads that    *)
(* run the pipeline.  Of the dict the model keeps running, current_step,   *)
(* the status and count of each step, total_insights and errors; the       *)
(* messages, the two times and scraped_data are written and never read by  *)
(* the functions modelled.                                                 *)
(***************************************************************************)
\* Most run_real_pipeline threads alive at once, and most items a step of the
\* pipeline returns.
MaxThreads == 2
MaxItems   == 2

Threads == 1..MaxThreads

\* The steps in the order run_real_pipeline takes them.
StepNames ==
    <<"data_collection", "cleaning", "structuring", "deduplication", "storage">>

StepSet == {StepNames[i] : i \in 1..Len(StepNames)}

\* The dict assigned at import, by start_pipeline and by reset_pipeline.
FreshStatus ==
    [running        |-> FALSE,
     current_step   |-> "None",
     steps          |-> [s \in StepSet |-> [status |-> "pending", count |-> 0]],
     total_insights |-> 0,
     errors         |-> <<>>]

\* run_real_pipeline, lines 54-56
begin_run(st) == [st EXCEPT !.running = TRUE, !.errors = <<>>]

\* current_step = step; steps[step]['status'] = 'running'
begin_step(st, step) ==
    [st EXCEPT !.current_step = step, !.steps[step].status = "running"]

\* A step recording its count and leaving its status as it is
complete_step_leaving_running(st, step, count) ==
    [st EXCEPT !.steps[step].count = count]

\* steps[step]['status'] = 'completed'; steps[step]['count'] = count
complete_step(st, step, count) ==
    [st EXCEPT !.steps[step].status = "completed", !.steps[step].count = count]

\* `if failed_inserts:` errors.append(...), then the block "Complete"
complete_run(st, stored, failed) ==
    [st EXCEPT !.running = FALSE, !.current_step = "None",
               !.total_insights = stored,
               !.errors = IF failed > 0 THEN Append(@, "failed_inserts") ELSE @]

\* The except block: the step current_step names, if any, is marked 'error'.
fail_run(st, e) ==
    LET marked == IF st.current_step # "None"
                  THEN [st EXCEPT !.steps[st.current_step].status = "error"]
                  ELSE st
    IN  [marked EXCEPT !.running = FALSE, !.errors = Append(@, e),
                       !.current_step = "None"]

\* A thread: where it is in run_real_pipeline, the step it is at, the count
\* its last call returned and the number of failed inserts.
IdleThread == [pc |-> "idle", step |-> 0, count |-> 0, failed |-> 0, error |-> "none"]

VARIABLES
    pc,                  \* position of the call in progress
    text1, text2,        \* arguments of calculate_text_similarity
    similarity,          \* its outcome
    raw_text,            \* an argument of preprocess_text
    clean_text,          \* preprocess_text(raw_text)
    clean_again,         \* preprocess_text(clean_text)
    results_dict,        \* a results mapping, as <<key, value>> pairs
    mapping_text,        \* extract_results_text of the mapping
    encoded_text,        \* extract_results_text of its JSON encoding
    raw_results,         \* an argument of extract_results_text
    extracted,           \* what the call on raw_results left
    insight1, insight2,  \* arguments of calculate_insight_similarity
    overall_similarity,  \* its result
    swapped_similarity,  \* its result with the arguments exchanged
    entry,               \* the function the caller entered
    corpus,              \* rows of the insights table
    new_insight,         \* the record being checked
    keywords,            \* extract_keywords_from_insight(new_insight)
    calls,               \* storage calls issued so far, with their fate
    fetched,             \* rows of the last reply of the storage collaborator
    retrieval,           \* outcome of get_relevant_insights_for_comparison
    existing_insights,   \* candidates handed to is_duplicate_insight
    threshold,
    idx,                 \* next candidate of the loop
    max_similarity,
    most_similar,
    scored,              \* calls of calculate_insight_similarity so far
    decision,            \* what is_duplicate_insight returned
    verdict,             \* what check_for_duplicates returned
    new_insights,        \* argument of the two batch functions
    pos,                 \* index of the record the batch loop is at
    unique_insights,     \* list built by batch_check_duplicates
    duplicates_found,    \* counter of get_duplicate_statistics
    verdicts,            \* answers of check_for_duplicates so far, in order
    outcome,             \* what the batch function returned
    pipeline_status,     \* the global dict of the web frontend
    threads,             \* the run_real_pipeline threads: position and locals
    response             \* the reply to the last /api/start or /api/reset

vars == <<pc, text1, text2, similarity, raw_text, clean_text, clean_again,
          results_dict, mapping_text, encoded_text, raw_results, extracted,
          insight1, insight2, overall_similarity, swapped_similarity,
          entry, corpus, new_insight, keywords, calls, fetched, retrieval,
          existing_insights, threshold, idx, max_similarity, most_similar,
          scored, decision, verdict,
          new_insights, pos, unique_insights, duplicates_found, verdicts,
          outcome, pipeline_status, threads, response>>

Executing(t) == threads[t].pc # "idle"

WebIdle ==
    /\ pipeline_status = FreshStatus
    /\ threads = [t \in Threads |-> IdleThread]
    /\ response = "none"

NoOutcome == [raised |-> FALSE, val |-> FZero]
NoInsight == Record(0, PyAbsent, PyAbsent, PyAbsent)
NoDecision == [returned |-> FALSE, is_duplicate |-> FALSE, matched |-> NoneRecord]
NoVerdict  == [returned |-> FALSE, raised |-> FALSE, val |-> FALSE]

NoStatistics == [total_insights |-> 0, duplicates_found |-> 0,
                 unique_insights |-> 0, duplicate_rate |-> FZero]
NoBatchOutcome == [returned |-> FALSE, raised |-> FALSE, stats |-> NoStatistics]

BatchIdle   == /\ new_insights = <<>> /\ pos = 1 /\ unique_insights = <<>>
               /\ duplicates_found = 0 /\ verdicts = <<>>
               /\ outcome = NoBatchOutcome
ExtractIdle == raw_results = PyNone /\ extracted = Extracted(<<>>)
ResultsIdle == /\ results_dict = <<>> /\ mapping_text = <<>> /\ encoded_text = <<>>
               /\ ExtractIdle
CleanIdle   == raw_text = PyNone /\ clean_text = <<>> /\ clean_again = <<>>
TextIdle    == /\ text1 = <<>> /\ text2 = <<>> /\ similarity = NoOutcome
               /\ CleanIdle
               /\ ResultsIdle
InsightIdle == /\ insight1 = NoInsight /\ insight2 = NoInsight
               /\ overall_similarity = FZero /\ swapped_similarity = FZero
DedupIdle   == /\ entry = "none" /\ corpus = {} /\ new_insight = NoInsight
               /\ keywords = {} /\ calls = <<>> /\ fetched = <<>>
               /\ retrieval = Rows(<<>>)
               /\ existing_insights = <<>> /\ threshold = DefaultThreshold
               /\ idx = 1 /\ max_similarity = FZero /\ most_similar = NoneRecord
               /\ scored = 0 /\ decision = NoDecision /\ verdict = NoVerdict
               /\ BatchIdle

resultsVars == <<results_dict, mapping_text, encoded_text, raw_results, extracted>>
cleanVars   == <<raw_text, clean_text, clean_again>>
textVars    == <<text1, text2, similarity, cleanVars, resultsVars>>
insightVars == <<insight1, insight2, overall_similarity, swapped_similarity>>
batchVars   == <<new_insights, pos, unique_insights, duplicates_found,
                 verdicts, outcome>>
dedupVars   == <<entry, corpus, new_insight, keywords, calls, fetched, retrieval,
                 existing_insights, threshold, idx, max_similarity,
                 most_similar, scored, decision, verdict, batchVars>>
loopVars    == <<idx, max_similarity, most_similar, scored, decision>>
webVars     == <<pipeline_status, threads, response>>

(***************************************************************************)
(* calculate_text_similarity applied to two strings.                       *)
(***************************************************************************)
InitText ==
    /\ WebIdle
    /\ pc = "text_call"
    /\ text1 \in Texts
    /\ text2 \in Texts
    /\ similarity = NoOutcome
    /\ CleanIdle
    /\ ResultsIdle
    /\ InsightIdle
    /\ DedupIdle

TextSimilarityCall ==
    /\ pc = "text_call"
    /\ similarity' = calculate_text_similarity(PyStr(text1), PyStr(text2))
    /\ pc' = "text_done"
    /\ UNCHANGED <<webVars, text1, text2, cleanVars, resultsVars, insightVars, dedupVars>>

NextText == TextSimilarityCall

SpecText == InitText /\ [][NextText]_vars

(***************************************************************************)
(* preprocess_text applied to a value, then to its own result.             *)
(***************************************************************************)
\* Most characters of an argument of preprocess_text.
MaxChars == 4

\* A lowercase and an uppercase letter, a digit, the three whitespace
\* characters and a punctuation mark.
RawChars == {"a", "B", "7", " ", "\n", "\t", "-"}

RawTexts == UNION {[1..n -> RawChars] : n \in 0..MaxChars}

InitPreprocess ==
    /\ WebIdle
    /\ pc = "clean_call"
    /\ raw_text \in {PyStr(t) : t \in RawTexts} \cup {PyNone}
    /\ clean_text = <<>>
    /\ clean_again = <<>>
    /\ text1 = <<>> /\ text2 = <<>> /\ similarity = NoOutcome
    /\ ResultsIdle
    /\ InsightIdle
    /\ DedupIdle

\* `if not text: return ""`, then the body on a str
preprocess_text_call(text) ==
    IF ~Truthy(text) THEN <<>> ELSE preprocess_text(text.s)

PreprocessCall ==
    /\ pc = "clean_call"
    /\ clean_text' = preprocess_text_call(raw_text)
    /\ pc' = "clean_again"
    /\ UNCHANGED <<webVars, text1, text2, similarity, raw_text, clean_again, resultsVars,
                   insightVars, dedupVars>>

PreprocessAgain ==
    /\ pc = "clean_again"
    /\ clean_again' = preprocess_text_call(PyStr(clean_text))
    /\ pc' = "clean_done"
    /\ UNCHANGED <<webVars, text1, text2, similarity, raw_text, clean_text, resultsVars,
                   insightVars, dedupVars>>

NextPreprocess == PreprocessCall \/ PreprocessAgain

SpecPreprocess == InitPreprocess /\ [][NextPreprocess]_vars

(***************************************************************************)
(* extract_results_text applied to a mapping and to its JSON encoding.     *)
(***************************************************************************)
\* Most members of a results mapping.
MaxMembers == 2

ResultKeys == { <<"a">>, <<"b">>, <<"c">> }

\* Values of a results mapping: texts, one of them empty and one with a
\* quote, a line break and a backslash, and numbers.
ResultValues ==
    { PyStr(Bean), PyStr(<<"D", "a", "t", "e", "!">>), PyStr(<<>>),
      PyStr(<<"a", "\"", "\n", "\\", "n">>), PyInt(34), PyInt(0) }

Mappings ==
    UNION { { q \in [1..n -> ResultKeys \X ResultValues] :
                \A i, j \in 1..n : i # j => q[i][1] # q[j][1] } :
            n \in 0..MaxMembers }

InitResults ==
    /\ WebIdle
    /\ pc = "results_call"
    /\ results_dict \in Mappings
    /\ mapping_text = <<>>
    /\ encoded_text = <<>>
    /\ ExtractIdle
    /\ text1 = <<>> /\ text2 = <<>> /\ similarity = NoOutcome
    /\ CleanIdle
    /\ InsightIdle
    /\ DedupIdle

\* extract_results_text(results) with results a dict
ResultsFromMapping ==
    /\ pc = "results_call"
    /\ mapping_text' = extract_results_text(DictOf(results_dict))
    /\ pc' = "results_encoded"
    /\ UNCHANGED <<webVars, text1, text2, similarity, cleanVars, results_dict, encoded_text,
                   raw_results, extracted, insightVars, dedupVars>>

\* extract_results_text(json.dumps(results))
ResultsFromJson ==
    /\ pc = "results_encoded"
    /\ encoded_text' = extract_results_text(PyStr(JsonDumps(results_dict)))
    /\ pc' = "results_done"
    /\ UNCHANGED <<webVars, text1, text2, similarity, cleanVars, results_dict, mapping_text,
                   raw_results, extracted, insightVars, dedupVars>>

NextResults == ResultsFromMapping \/ ResultsFromJson

SpecResults == InitResults /\ [][NextResults]_vars

(***************************************************************************)
(* extract_results_text applied to one value: JSON texts of every kind,    *)
(* texts that are not JSON, and values that are not a str.                 *)
(***************************************************************************)
\* Most elements of a JSON array.
MaxElements == 2

JsonNull   == <<"n", "u", "l", "l">>
JsonTrue   == <<"t", "r", "u", "e">>
JsonQuoted == JsonDumpsString(Bean)
JsonObjectText == JsonDumps(<<<<(<<"a">>), PyStr(Bean)>>, <<(<<"b">>), PyInt(34)>>>>)

\* JSON texts that are neither an array nor an object.
JsonScalars == { JsonNull, JsonTrue, JsonQuoted, <<"3", "4">>, <<"0">> }

\* The elements joined as json.dumps joins them.
RECURSIVE JoinWithComma(_)
JoinWithComma(parts) ==
    IF parts = <<>> THEN <<>>
    ELSE IF Len(parts) = 1 THEN parts[1]
    ELSE parts[1] \o <<",", " ">> \o JoinWithComma(Tail(parts))

\* JSON arrays of at most MaxElements elements, each a scalar, the empty
\* array or an object.
JsonArrays ==
    { <<"[">> \o JoinWithComma(q) \o <<"]">> :
        q \in UNION { [1..n -> JsonScalars \cup {<<"[", "]">>, JsonObjectText}] :
                        n \in 0..MaxElements } }

\* JSON texts that do not encode a mapping, bare and with whitespace around.
JsonOfAnotherKind ==
    LET bare == JsonScalars \cup JsonArrays
    IN  bare \cup { <<" ">> \o t \o <<"\n">> : t \in JsonScalars }

\* Texts that are not JSON: a JSON text short of its last character (but a
\* number, which stays one), or followed by a letter, and plain words.
NotJson ==
    LET whole == (JsonScalars \ {<<"3", "4">>, <<"0">>}) \cup JsonArrays
                    \cup {JsonObjectText}
    IN  { SubSeq(t, 1, Len(t) - 1) : t \in whole }
          \cup { t \o <<"x">> : t \in JsonScalars \cup {JsonObjectText, <<"[", "]">>} }
          \cup { Bean \o Sp \o Date, <<"{">>, <<"0", "3">> }

\* Arguments of extract_results_text.
RawResults ==
    { PyStr(t) : t \in JsonOfAnotherKind \cup NotJson \cup {JsonObjectText, <<>>} }
        \cup { PyNone, PyInt(0), PyInt(34), PyDict(<<PyStr(Bean), PyInt(34)>>) }

InitExtract ==
    /\ WebIdle
    /\ pc = "extract_call"
    /\ raw_results \in RawResults
    /\ extracted = Extracted(<<>>)
    /\ results_dict = <<>> /\ mapping_text = <<>> /\ encoded_text = <<>>
    /\ text1 = <<>> /\ text2 = <<>> /\ similarity = NoOutcome
    /\ CleanIdle
    /\ InsightIdle
    /\ DedupIdle

ExtractCall ==
    /\ pc = "extract_call"
    /\ extracted' = extract_results_text_call(raw_results)
    /\ pc' = "extract_done"
    /\ UNCHANGED <<webVars, text1, text2, similarity, cleanVars, results_dict, mapping_text,
                   encoded_text, raw_results, insightVars, dedupVars>>

NextExtract == ExtractCall

SpecExtract == InitExtract /\ [][NextExtract]_vars

(***************************************************************************)
(* calculate_insight_similarity applied to two records, in both orders.    *)
(***************************************************************************)
InitInsight ==
    /\ WebIdle
    /\ pc = "insight_call"
    /\ insight1 \in Insights
    /\ insight2 \in Insights
    /\ overall_similarity = FZero
    /\ swapped_similarity = FZero
    /\ TextIdle
    /\ DedupIdle

InsightSimilarityCall ==
    /\ pc = "insight_call"
    /\ overall_similarity' = calculate_insight_similarity(insight1, insight2)
    /\ pc' = "insight_swap"
    /\ UNCHANGED <<webVars, insight1, insight2, swapped_similarity, textVars, dedupVars>>

InsightSimilaritySwappedCall ==
    /\ pc = "insight_swap"
    /\ swapped_similarity' = calculate_insight_similarity(insight2, insight1)
    /\ pc' = "insight_done"
    /\ UNCHANGED <<webVars, insight1, insight2, overall_similarity, textVars, dedupVars>>

NextInsight == InsightSimilarityCall \/ InsightSimilaritySwappedCall

SpecInsight == InitInsight /\ [][NextInsight]_vars

(***************************************************************************)
(* extract_keywords_from_insight applied to a record.                      *)
(***************************************************************************)
KeywordInsights ==
    {PyStr(t) : t \in Texts \cup {QuickBrownFox, Cat, Cat \o Sp \o Bean \o Sp \o Cat}}
        \cup {PyNone}

KeywordLimitations ==
    { PyStr(<<>>), PyAbsent, PyInt(3), PyStr(The \o Sp \o Dog),
      PyStr(Bean \o Sp \o <<"D", "a", "t", "e", "!">> \o Sp \o Lazy \o Sp \o Jumps) }

InitKeywords ==
    /\ WebIdle
    /\ TextIdle
    /\ InsightIdle
    /\ entry = "extract_keywords_from_insight"
    /\ pc = "keywords_call"
    /\ new_insight \in { Record(0, i, PyStr(<<>>), l) :
                            i \in KeywordInsights, l \in KeywordLimitations }
    /\ corpus = {}
    /\ keywords = {}
    /\ calls = <<>>
    /\ fetched = <<>>
    /\ retrieval = Rows(<<>>)
    /\ existing_insights = <<>>
    /\ threshold = DefaultThreshold
    /\ idx = 1
    /\ max_similarity = FZero
    /\ most_similar = NoneRecord
    /\ scored = 0
    /\ decision = NoDecision
    /\ verdict = NoVerdict
    /\ BatchIdle

KeywordsCall ==
    /\ pc = "keywords_call"
    /\ keywords' = extract_keywords_from_insight(new_insight)
    /\ pc' = "keywords_done"
    /\ UNCHANGED <<webVars, textVars, insightVars, batchVars, entry, corpus, new_insight,
                   calls, fetched, retrieval, existing_insights, threshold, loopVars,
                   verdict>>

NextKeywords == KeywordsCall

SpecKeywords == InitKeywords /\ [][NextKeywords]_vars

(***************************************************************************)
(* Candidate retrieval, the duplicate decision and check_for_duplicates,   *)
(* entered by a caller of one of three functions.                          *)
(***************************************************************************)
InitDedup ==
    /\ WebIdle
    /\ TextIdle
    /\ InsightIdle
    /\ entry \in {"check_for_duplicates", "get_relevant_insights_for_comparison",
                  "is_duplicate_insight"}
    /\ new_insight \in NewInsights
    /\ IF entry = "is_duplicate_insight"
       THEN /\ pc = "decide"
            /\ corpus = {}
            /\ existing_insights \in CandidateLists
            /\ threshold \in Thresholds
       ELSE /\ pc = "keywords"
            /\ corpus \in Corpora
            /\ existing_insights = <<>>
            /\ threshold = DefaultThreshold
    /\ keywords = {}
    /\ calls = <<>>
    /\ fetched = <<>>
    /\ retrieval = Rows(<<>>)
    /\ idx = 1
    /\ max_similarity = FZero
    /\ most_similar = NoneRecord
    /\ scored = 0
    /\ decision = NoDecision
    /\ verdict = NoVerdict
    /\ BatchIdle

\* The log of storage calls when every query is issued as an upsert
Called_as_write(name, reply) == Append(calls, [call |-> "upsert", ok |-> reply.ok])

\* The log of storage calls: the query issued and whether it succeeded.
Called(name, reply) == Append(calls, [call |-> name, ok |-> reply.ok])

\* get_relevant_insights_for_comparison querying by keywords whatever the set
path_always_by_keywords(found) == "keyword_query"

\* `if keywords:` fetch_insights_by_keywords, `else:` fetch_recent_insights
path(found) == IF found # {} THEN "keyword_query" ELSE "recent_query"

\* get_relevant_insights_for_comparison: keywords, then the choice of path
ExtractKeywords ==
    /\ pc = "keywords"
    /\ keywords' = extract_keywords_from_insight(new_insight)
    /\ pc' = path(keywords')
    /\ UNCHANGED <<webVars, textVars, insightVars, batchVars, entry, corpus, new_insight, calls,
                   fetched, retrieval, existing_insights, threshold, loopVars, verdict>>

\* fetch_insights_by_keywords: the text_search query
KeywordQuery ==
    /\ pc = "keyword_query"
    /\ \E reply \in {Failure} \cup TextSearchReplies(corpus, KeywordLimit) :
        LET r == KeywordQueryResult(reply)
        IN  /\ calls' = Called("text_search", reply)
            /\ fetched' = reply.rows
            /\ retrieval' = r.out
            /\ pc' = IF r.done THEN "retrieved" ELSE "fallback_fetch"
    /\ UNCHANGED <<webVars, textVars, insightVars, batchVars, entry, corpus, new_insight, keywords,
                   existing_insights, threshold, loopVars, verdict>>

\* fetch_insights_by_keywords: the fallback fetch of limit * 2 rows
FallbackFetch ==
    /\ pc = "fallback_fetch"
    /\ \E reply \in {Failure} \cup UnorderedReplies(corpus, KeywordLimit * 2) :
        /\ calls' = Called("select_limit", reply)
        /\ fetched' = reply.rows
        /\ retrieval' = FallbackResult(keywords, reply)
        /\ pc' = "retrieved"
    /\ UNCHANGED <<webVars, textVars, insightVars, batchVars, entry, corpus, new_insight, keywords,
                   existing_insights, threshold, loopVars, verdict>>

\* fetch_recent_insights, when there is no keyword
RecentQuery ==
    /\ pc = "recent_query"
    /\ \E reply \in {Failure, RecentReply(corpus, RecentLimit)} :
        /\ calls' = Called("select_recent", reply)
        /\ fetched' = reply.rows
        /\ retrieval' = fetch_recent_insights(reply)
        /\ pc' = "retrieved"
    /\ UNCHANGED <<webVars, textVars, insightVars, batchVars, entry, corpus, new_insight, keywords,
                   existing_insights, threshold, loopVars, verdict>>

\* get_relevant_insights_for_comparison returns to its direct caller.
ReturnCandidates ==
    /\ pc = "retrieved"
    /\ entry = "get_relevant_insights_for_comparison"
    /\ pc' = "done"
    /\ UNCHANGED <<webVars, textVars, insightVars, dedupVars>>

\* check_for_duplicates answering True when it has nothing to compare with
check_after_retrieval_assumes_duplicate(retr) ==
    IF retr.raised THEN [returns |-> TRUE, raised |-> FALSE, val |-> TRUE]
    ELSE IF retr.val = <<>> THEN [returns |-> TRUE, raised |-> FALSE, val |-> TRUE]
    ELSE [returns |-> FALSE, raised |-> FALSE, val |-> FALSE]

\* check_for_duplicates once retrieval is over: the except clause, and the
\* early return when there is nothing to compare with.
check_after_retrieval(retr) ==
    IF retr.raised THEN [returns |-> TRUE, raised |-> FALSE, val |-> FALSE]
    ELSE IF retr.val = <<>> THEN [returns |-> TRUE, raised |-> FALSE, val |-> FALSE]
    ELSE [returns |-> FALSE, raised |-> FALSE, val |-> FALSE]

\* The functions on whose behalf check_for_duplicates runs.
CheckCallers ==
    {"check_for_duplicates", "batch_check_duplicates", "get_duplicate_statistics"}

\* check_for_duplicates comparing also with the records of the batch kept so
\* far
compared_with_kept_records(retr, kept) ==
    IF retr.raised THEN retr ELSE Rows(retr.val \o kept)

\* `existing_insights = get_relevant_insights_for_comparison(new_insight)`:
\* the records a check compares with are the retrieved ones; the records the
\* batch has kept so far are no part of them.
compared_with(retr, kept) == retr

CheckCandidates ==
    /\ pc = "retrieved"
    /\ entry \in CheckCallers
    /\ LET pool == compared_with(retrieval, unique_insights)
           c == check_after_retrieval(pool)
       IN  /\ existing_insights' = pool.val
           /\ verdict' = IF c.returns
                         THEN [returned |-> TRUE, raised |-> c.raised, val |-> c.val]
                         ELSE verdict
           /\ pc' = IF c.returns THEN "done" ELSE "decide"
    /\ UNCHANGED <<webVars, textVars, insightVars, batchVars, entry, corpus, new_insight, keywords,
                   calls, fetched, retrieval, threshold, loopVars>>

\* is_duplicate_insight without its early return
never_returns_without_comparing(existing) == FALSE

\* is_duplicate_insight: `if not existing_insights: return False, None`
returns_without_comparing(existing) == existing = <<>>

DecideStart ==
    /\ pc = "decide"
    /\ IF returns_without_comparing(existing_insights)
       THEN /\ decision' = [returned |-> TRUE, is_duplicate |-> FALSE,
                            matched |-> NoneRecord]
            /\ pc' = "decided"
            /\ UNCHANGED <<idx, max_similarity, most_similar>>
       ELSE /\ idx' = 1
            /\ max_similarity' = FZero
            /\ most_similar' = NoneRecord
            /\ pc' = "score"
            /\ UNCHANGED decision
    /\ UNCHANGED <<webVars, textVars, insightVars, batchVars, entry, corpus, new_insight, keywords,
                   calls, fetched, retrieval, existing_insights, threshold, scored, verdict>>

\* `if similarity > max_similarity:` keep the candidate
replaces_best(sim, best) == FLess(best, sim)

\* is_duplicate_insight: one pass of the loop
ScoreCandidate ==
    /\ pc = "score"
    /\ idx <= Len(existing_insights)
    /\ LET sim == calculate_insight_similarity(new_insight, existing_insights[idx])
       IN  IF replaces_best(sim, max_similarity)
           THEN /\ max_similarity' = sim
                /\ most_similar' = existing_insights[idx]
           ELSE UNCHANGED <<max_similarity, most_similar>>
    /\ scored' = scored + 1
    /\ idx' = idx + 1
    /\ UNCHANGED <<webVars, pc, textVars, insightVars, batchVars, entry, corpus, new_insight, keywords,
                   calls, fetched, retrieval, existing_insights, threshold, decision, verdict>>

\* `is_duplicate = max_similarity >= threshold` and the returned pair
decide(best_similarity, best, limit) ==
    LET is_duplicate == FLeq(limit, best_similarity)
    IN  [returned |-> TRUE, is_duplicate |-> is_duplicate,
         matched |-> IF is_duplicate THEN best ELSE NoneRecord]

DecideEnd ==
    /\ pc = "score"
    /\ idx > Len(existing_insights)
    /\ decision' = decide(max_similarity, most_similar, threshold)
    /\ pc' = "decided"
    /\ UNCHANGED <<webVars, textVars, insightVars, batchVars, entry, corpus, new_insight, keywords,
                   calls, fetched, retrieval, existing_insights, threshold, idx,
                   max_similarity, most_similar, scored, verdict>>

\* is_duplicate_insight returns to its direct caller.
ReturnDecision ==
    /\ pc = "decided"
    /\ entry = "is_duplicate_insight"
    /\ pc' = "done"
    /\ UNCHANGED <<webVars, textVars, insightVars, dedupVars>>

\* check_for_duplicates after the decision: similar_insight.get('id') raises
\* on None, and the except clause answers False.
report_and_return(d) ==
    IF d.is_duplicate /\ d.matched = NoneRecord THEN FALSE ELSE d.is_duplicate

CheckReturn ==
    /\ pc = "decided"
    /\ entry \in CheckCallers
    /\ verdict' = [returned |-> TRUE, raised |-> FALSE,
                   val |-> report_and_return(decision)]
    /\ pc' = "done"
    /\ UNCHANGED <<webVars, textVars, insightVars, batchVars, entry, corpus, new_insight, keywords,
                   calls, fetched, retrieval, existing_insights, threshold, loopVars>>

(***************************************************************************)
(* get_relevant_insights_for_comparison on tables with more rows than the  *)
(* default limit of the keyword query.                                     *)
(***************************************************************************)
\* Most rows a large table has beyond KeywordLimit.
MaxExcess == 2

\* The table of rows 1..n; the rows whose id is in other hold another text.
LargeTable(n, other) ==
    { IF i \in other
      THEN Record(i, PyStr(Cat), PyStr(<<>>), PyStr(<<>>))
      ELSE Record(i, PyStr(Bean \o Sp \o Date), PyStr(Bean), PyStr(<<>>)) :
      i \in 1..n }

LargeTables ==
    { LargeTable(KeywordLimit + d, other) : d \in 0..MaxExcess, other \in {{}, {2}} }
        \cup { LargeTable(RecentLimit + d, {}) : d \in 0..MaxExcess }

InitPool ==
    /\ WebIdle
    /\ TextIdle
    /\ InsightIdle
    /\ entry = "get_relevant_insights_for_comparison"
    /\ pc = "keywords"
    /\ new_insight \in NewInsights
    /\ corpus \in Corpora \cup LargeTables
    /\ keywords = {}
    /\ calls = <<>>
    /\ fetched = <<>>
    /\ retrieval = Rows(<<>>)
    /\ existing_insights = <<>>
    /\ threshold = DefaultThreshold
    /\ idx = 1
    /\ max_similarity = FZero
    /\ most_similar = NoneRecord
    /\ scored = 0
    /\ decision = NoDecision
    /\ verdict = NoVerdict
    /\ BatchIdle

NextPool ==
    \/ ExtractKeywords
    \/ KeywordQuery
    \/ FallbackFetch
    \/ RecentQuery
    \/ ReturnCandidates

SpecPool == InitPool /\ [][NextPool]_vars

(***************************************************************************)
(* batch_check_duplicates and get_duplicate_statistics: one call of        *)
(* check_for_duplicates per record of the argument, in order.              *)
(***************************************************************************)
\* Most records of a batch.
MaxBatch == 2

\* Records of a batch: two that repeat a stored row, one of them with None
\* under INSIGHT, one that repeats none (its results are its own), and a
\* structured insight with the texts of a stored row.
BatchRecords ==
    { WithUpper(Record(0, PyStr(Bean \o Sp \o Date), PyStr(Bean), PyStr(<<>>)),
                PyStr(<<"B", "e", "a", "n">>)),
      WithUpper(Record(0, PyStr(Bean \o Sp \o Date), PyStr(Bean), PyStr(<<>>)),
                PyNone),
      Record(0, PyStr(Cat), PyStr(Cat), PyStr(<<>>)),
      Structured(Bean \o Sp \o Date, Bean, <<>>) }

Batches == UNION {[1..n -> BatchRecords] : n \in 0..MaxBatch}

\* Tables a batch is checked against.
BatchCorpora ==
    { {},
      { Record(1, PyStr(Bean \o Sp \o Date), PyStr(Bean), PyStr(<<>>)),
        Record(3, PyStr(Cat), PyStr(<<>>), PyStr(<<>>)) } }

InitBatch ==
    /\ WebIdle
    /\ TextIdle
    /\ InsightIdle
    /\ entry \in {"batch_check_duplicates", "get_duplicate_statistics"}
    /\ pc = "batch_loop"
    /\ new_insights \in Batches
    /\ corpus \in BatchCorpora
    /\ new_insight = NoInsight
    /\ keywords = {}
    /\ calls = <<>>
    /\ fetched = <<>>
    /\ retrieval = Rows(<<>>)
    /\ existing_insights = <<>>
    /\ threshold = DefaultThreshold
    /\ idx = 1
    /\ max_similarity = FZero
    /\ most_similar = NoneRecord
    /\ scored = 0
    /\ decision = NoDecision
    /\ verdict = NoVerdict
    /\ pos = 1
    /\ unique_insights = <<>>
    /\ duplicates_found = 0
    /\ verdicts = <<>>
    /\ outcome = NoBatchOutcome

\* `for insight in new_insights:` and the call check_for_duplicates(insight)
CallCheck ==
    /\ pc = "batch_loop"
    /\ pos <= Len(new_insights)
    /\ new_insight' = new_insights[pos]
    /\ keywords' = {}
    /\ fetched' = <<>>
    /\ retrieval' = Rows(<<>>)
    /\ existing_insights' = <<>>
    /\ idx' = 1
    /\ max_similarity' = FZero
    /\ most_similar' = NoneRecord
    /\ scored' = 0
    /\ decision' = NoDecision
    /\ verdict' = NoVerdict
    /\ pc' = "keywords"
    /\ UNCHANGED <<webVars, textVars, insightVars, batchVars, entry, corpus, calls, threshold>>

SkipMessageLength == 50
Unknown == <<"U", "n", "k", "n", "o", "w", "n">>

\* insight.get('INSIGHT', 'Unknown')[:50]: slicing raises on a value that is
\* not a sequence.
skip_message(insight) ==
    LET v == IF insight.INSIGHT = PyAbsent THEN PyStr(Unknown) ELSE insight.INSIGHT
    IN  IF v.t = "str" THEN [raised |-> FALSE, text |-> Prefix(v.s, SkipMessageLength)]
        ELSE [raised |-> TRUE, text |-> <<>>]

\* `if not check_for_duplicates(insight):` keep the record
keeps(is_duplicate) == ~is_duplicate

\* batch_check_duplicates: the body of the loop, once the check has answered
FilterRecord ==
    /\ pc = "done"
    /\ entry = "batch_check_duplicates"
    /\ verdict.returned
    /\ verdicts' = Append(verdicts, verdict.val)
    /\ IF keeps(verdict.val)
       THEN /\ unique_insights' = Append(unique_insights, new_insight)
            /\ pos' = pos + 1
            /\ pc' = "batch_loop"
            /\ UNCHANGED outcome
       ELSE IF skip_message(new_insight).raised
       THEN /\ outcome' = [returned |-> FALSE, raised |-> TRUE, stats |-> NoStatistics]
            /\ pc' = "batch_done"
            /\ UNCHANGED <<unique_insights, pos>>
       ELSE /\ pos' = pos + 1
            /\ pc' = "batch_loop"
            /\ UNCHANGED <<unique_insights, outcome>>
    /\ UNCHANGED <<webVars, textVars, insightVars, entry, corpus, new_insight, keywords,
                   calls, fetched, retrieval, existing_insights, threshold, loopVars,
                   verdict, new_insights, duplicates_found>>

\* batch_check_duplicates: `return unique_insights`
BatchReturn ==
    /\ pc = "batch_loop"
    /\ entry = "batch_check_duplicates"
    /\ pos > Len(new_insights)
    /\ outcome' = [returned |-> TRUE, raised |-> FALSE, stats |-> NoStatistics]
    /\ pc' = "batch_done"
    /\ UNCHANGED <<webVars, textVars, insightVars, entry, corpus, new_insight, keywords,
                   calls, fetched, retrieval, existing_insights, threshold, loopVars,
                   verdict, new_insights, pos, unique_insights,
                   duplicates_found, verdicts>>

\* get_duplicate_statistics: the body of the loop, once the check has answered
CountRecord ==
    /\ pc = "done"
    /\ entry = "get_duplicate_statistics"
    /\ verdict.returned
    /\ verdicts' = Append(verdicts, verdict.val)
    /\ duplicates_found' = IF verdict.val THEN duplicates_found + 1
                           ELSE duplicates_found
    /\ pos' = pos + 1
    /\ pc' = "batch_loop"
    /\ UNCHANGED <<webVars, textVars, insightVars, entry, corpus, new_insight, keywords,
                   calls, fetched, retrieval, existing_insights, threshold, loopVars,
                   verdict, new_insights, unique_insights, outcome>>

\* get_duplicate_statistics reporting the duplicates as the unique records
statistics_swapped(total_insights, duplicates) ==
    [total_insights   |-> total_insights,
     duplicates_found |-> total_insights - duplicates,
     unique_insights  |-> duplicates,
     duplicate_rate   |-> IF total_insights > 0
                          THEN FDiv(FFromInt(duplicates), FFromInt(total_insights))
                          ELSE FZero]

\* The dict returned by get_duplicate_statistics
statistics(total_insights, duplicates) ==
    [total_insights   |-> total_insights,
     duplicates_found |-> duplicates,
     unique_insights  |-> total_insights - duplicates,
     duplicate_rate   |-> IF total_insights > 0
                          THEN FDiv(FFromInt(duplicates), FFromInt(total_insights))
                          ELSE FZero]

StatisticsReturn ==
    /\ pc = "batch_loop"
    /\ entry = "get_duplicate_statistics"
    /\ pos > Len(new_insights)
    /\ outcome' = [returned |-> TRUE, raised |-> FALSE,
                   stats |-> statistics(Len(new_insights), duplicates_found)]
    /\ pc' = "batch_done"
    /\ UNCHANGED <<webVars, textVars, insightVars, entry, corpus, new_insight, keywords,
                   calls, fetched, retrieval, existing_insights, threshold, loopVars,
                   verdict, new_insights, pos, unique_insights,
                   duplicates_found, verdicts>>

NextBatch ==
    \/ CallCheck
    \/ ExtractKeywords
    \/ KeywordQuery
    \/ FallbackFetch
    \/ RecentQuery
    \/ CheckCandidates
    \/ DecideStart
    \/ ScoreCandidate
    \/ DecideEnd
    \/ CheckReturn
    \/ FilterRecord
    \/ BatchReturn
    \/ CountRecord
    \/ StatisticsReturn

SpecBatch == InitBatch /\ [][NextBatch]_vars

(***************************************************************************)
(* web_frontend/app.py: /api/start, /api/reset and the steps of a          *)
(* run_real_pipeline thread.  A thread reads the global pipeline_status    *)
(* anew at each statement, so it writes to the dict bound at that moment.  *)
(***************************************************************************)
\* start_pipeline: the guard on running, the reset of the dict, the thread
StartRequest ==
    /\ IF pipeline_status.running
       THEN /\ response' = "already_running"
            /\ UNCHANGED <<pipeline_status, threads>>
       ELSE \E t \in Threads :
                /\ ~Executing(t)
                /\ pipeline_status' = FreshStatus
                /\ threads' = [threads EXCEPT ![t] = [IdleThread EXCEPT !.pc = "begin"]]
                /\ response' = "started"
    /\ UNCHANGED <<pc, textVars, insightVars, dedupVars>>

\* reset_pipeline
ResetRequest ==
    /\ pipeline_status' = FreshStatus
    /\ response' = "reset"
    /\ UNCHANGED <<pc, threads, textVars, insightVars, dedupVars>>

\* run_real_pipeline up to the call of the first step
ThreadBegin(t) ==
    /\ threads[t].pc = "begin"
    /\ pipeline_status' = begin_step(begin_run(pipeline_status), StepNames[1])
    /\ threads' = [threads EXCEPT ![t].pc = "work", ![t].step = 1]
    /\ UNCHANGED <<pc, response, textVars, insightVars, dedupVars>>

\* The call of the step (collect_and_process_data, process_raw_content,
\* process_cleaned_content, batch_check_duplicates, batch_insert_insights):
\* it returns some items, or raises.  Storage returns the inserts that
\* succeeded and those that failed, among the unique insights.
StepWork(t) ==
    /\ threads[t].pc = "work"
    /\ \/ \E n \in 0..(IF threads[t].step = Len(StepNames) THEN threads[t].count
                                                           ELSE MaxItems) :
            threads' = [threads EXCEPT
                          ![t].pc = "worked",
                          ![t].count = n,
                          ![t].failed = IF threads[t].step = Len(StepNames)
                                        THEN threads[t].count - n ELSE 0]
       \/ threads' = [threads EXCEPT ![t].pc = "raised", ![t].error = "exception"]
    /\ UNCHANGED <<pc, pipeline_status, response, textVars, insightVars, dedupVars>>

\* The step is marked completed; a step before storage that returned nothing
\* raises.
StepCompleted(t) ==
    /\ threads[t].pc = "worked"
    /\ pipeline_status' = complete_step(pipeline_status, StepNames[threads[t].step],
                                        threads[t].count)
    /\ threads' = IF threads[t].step < Len(StepNames) /\ threads[t].count = 0
                  THEN [threads EXCEPT ![t].pc = "raised", ![t].error = "no_content"]
                  ELSE IF threads[t].step < Len(StepNames)
                  THEN [threads EXCEPT ![t].pc = "next"]
                  ELSE [threads EXCEPT ![t].pc = "complete"]
    /\ UNCHANGED <<pc, response, textVars, insightVars, dedupVars>>

\* The next step is entered.
NextStep(t) ==
    /\ threads[t].pc = "next"
    /\ pipeline_status' = begin_step(pipeline_status, StepNames[threads[t].step + 1])
    /\ threads' = [threads EXCEPT ![t].pc = "work", ![t].step = @ + 1]
    /\ UNCHANGED <<pc, response, textVars, insightVars, dedupVars>>

\* The end of the try block; the thread ends.
RunCompleted(t) ==
    /\ threads[t].pc = "complete"
    /\ pipeline_status' = complete_run(pipeline_status, threads[t].count,
                                       threads[t].failed)
    /\ threads' = [threads EXCEPT ![t] = IdleThread]
    /\ UNCHANGED <<pc, response, textVars, insightVars, dedupVars>>

\* The except block; the thread ends.
RunFailed(t) ==
    /\ threads[t].pc = "raised"
    /\ pipeline_status' = fail_run(pipeline_status, threads[t].error)
    /\ threads' = [threads EXCEPT ![t] = IdleThread]
    /\ UNCHANGED <<pc, response, textVars, insightVars, dedupVars>>

ThreadStep(t) ==
    \/ ThreadBegin(t)
    \/ StepWork(t)
    \/ StepCompleted(t)
    \/ NextStep(t)
    \/ RunCompleted(t)
    \/ RunFailed(t)

InitWeb ==
    /\ pc = "web"
    /\ TextIdle
    /\ InsightIdle
    /\ DedupIdle
    /\ WebIdle

NextWeb ==
    \/ StartRequest
    \/ ResetRequest
    \/ \E t \in Threads : ThreadStep(t)

\* The server and its threads under every interleaving of requests.
SpecWeb == InitWeb /\ [][NextWeb]_vars

\* One run: /api/start has answered and its thread is about to begin.
InitRun ==
    /\ pc = "web"
    /\ TextIdle
    /\ InsightIdle
    /\ DedupIdle
    /\ pipeline_status = FreshStatus
    /\ threads = [t \in Threads |->
                    IF t = 1 THEN [IdleThread EXCEPT !.pc = "begin"] ELSE IdleThread]
    /\ response = "started"

NextRun == \E t \in Threads : ThreadStep(t)

\* One run of run_real_pipeline with no request in between.
SpecRun == InitRun /\ [][NextRun]_vars

NextDedup ==
    \/ ExtractKeywords
    \/ KeywordQuery
    \/ FallbackFetch
    \/ RecentQuery
    \/ ReturnCandidates
    \/ CheckCandidates
    \/ DecideStart
    \/ ScoreCandidate
    \/ DecideEnd
    \/ ReturnDecision
    \/ CheckReturn

(***************************************************************************)
(* Properties of retrieval, the decision and check_for_duplicates.         *)
(***************************************************************************)
AllCallsFailed == calls # <<>> /\ \A i \in 1..Len(calls) : ~calls[i].ok

LastCall == calls[Len(calls)].call

\* Retrieval has issued its last storage call.
Retrieved == pc \in {"retrieved", "done"}

\* C1: check_for_duplicates never raises, and answers False whenever every
\* storage call made during the check failed.
C1_FailureMeansNotDuplicate ==
    (entry = "check_for_duplicates" /\ pc = "done") =>
        /\ verdict.returned
        /\ ~verdict.raised
        /\ AllCallsFailed => verdict.val = FALSE

C1_Witness ==
    /\ entry = "check_for_duplicates"
    /\ pc = "done"
    /\ calls = <<[call |-> "text_search", ok |-> FALSE],
                 [call |-> "select_limit", ok |-> FALSE]>>
    /\ corpus # {}
    /\ verdict = [returned |-> TRUE, raised |-> FALSE, val |-> FALSE]

\* C2: get_relevant_insights_for_comparison never raises, whatever the fate of
\* the storage calls it issues; it returns rows of the table, and none when
\* every call it issued failed.
C2_RetrievalNeverRaises ==
    (pc = "retrieved") =>
        /\ ~retrieval.raised
        /\ SeqToSet(retrieval.val) \subseteq corpus
        /\ AllCallsFailed => retrieval.val = <<>>

C2_Witness ==
    /\ entry = "get_relevant_insights_for_comparison"
    /\ pc = "retrieved"
    /\ corpus # {}
    /\ calls = <<[call |-> "select_recent", ok |-> FALSE]>>
    /\ retrieval = Rows(<<>>)

\* C3: for a non-empty candidate sequence and any threshold, the decision is
\* (True, c) with c a candidate whose similarity to the new record reaches the
\* threshold, or (False, None).
C3_MatchAccompaniesTrue ==
    (decision.returned /\ existing_insights # <<>>) =>
        IF decision.is_duplicate
        THEN /\ decision.matched \in SeqToSet(existing_insights)
             /\ FLeq(threshold,
                     calculate_insight_similarity(new_insight, decision.matched))
        ELSE decision.matched = NoneRecord

\* The greatest similarity of the new record to a candidate, and the first
\* candidate that has it.
RECURSIVE GreatestSimilarity(_, _)
GreatestSimilarity(new, candidates) ==
    IF candidates = <<>> THEN FZero
    ELSE LET here == calculate_insight_similarity(new, Head(candidates))
             rest == GreatestSimilarity(new, Tail(candidates))
         IN  IF FLess(here, rest) THEN rest ELSE here

FirstWithSimilarity(new, candidates, sim) ==
    candidates[CHOOSE i \in 1..Len(candidates) :
        /\ calculate_insight_similarity(new, candidates[i]) = sim
        /\ \A j \in 1..(i - 1) :
               calculate_insight_similarity(new, candidates[j]) # sim]

\* C4: every candidate is scored; the answer is true exactly when the greatest
\* similarity reaches the threshold, and the record reported is the first
\* candidate with that similarity.
C4_FirstBestCandidate ==
    (decision.returned /\ existing_insights # <<>>) =>
        LET best == GreatestSimilarity(new_insight, existing_insights)
        IN  /\ scored = Len(existing_insights)
            /\ decision.is_duplicate = FLeq(threshold, best)
            /\ decision.is_duplicate =>
                 decision.matched =
                    FirstWithSimilarity(new_insight, existing_insights, best)

\* C5: with no candidate, is_duplicate_insight returns (False, None) for every
\* record and threshold and scores nothing, and check_for_duplicates answers
\* False when retrieval yields no candidate.
C5_NoCandidates ==
    /\ (decision.returned /\ existing_insights = <<>>) =>
          /\ decision.is_duplicate = FALSE
          /\ decision.matched = NoneRecord
          /\ scored = 0
    /\ (entry = "check_for_duplicates" /\ pc = "done" /\ retrieval.val = <<>>) =>
          /\ verdict = [returned |-> TRUE, raised |-> FALSE, val |-> FALSE]
          /\ scored = 0

C5_Witness ==
    /\ entry = "is_duplicate_insight"
    /\ pc = "done"
    /\ existing_insights = <<>>
    /\ threshold = FZero
    /\ decision = [returned |-> TRUE, is_duplicate |-> FALSE, matched |-> NoneRecord]

(***************************************************************************)
(* Properties of the similarity functions.                                 *)
(***************************************************************************)
\* x in units of 2^-Precision, for 1/2 <= x < 4
Units(x) == x.m * Pow2(x.e + Precision)

\* |x - y| <= k * 2^-Precision, for x and y in [1/2, 4)
Within(x, y, k) ==
    /\ x.m # 0 /\ x.e + Precision >= 0
    /\ y.m # 0 /\ y.e + Precision >= 0
    /\ Units(x) - Units(y) <= k
    /\ Units(y) - Units(x) <= k

\* The document keeps a term once normalised, tokenised and stop words removed.
HasTerms(text) == Tokens(preprocess_text(text)) # <<>>

\* The text a field is compared by, "" for a value that is falsy.
FieldText(insight, key) ==
    IF key = "results" THEN extract_results_text(Get(insight, key))
    ELSE IF Get(insight, key).t = "str" THEN Get(insight, key).s ELSE <<>>

IsText(insight, key) == key = "results" \/ Get(insight, key).t = "str"

\* C6: for all records a and b, calculate_insight_similarity(a, b) lies in
\* [0, 1].
C6_InUnitInterval ==
    pc = "insight_done" =>
        /\ FLeq(FZero, overall_similarity)
        /\ FLeq(overall_similarity, FOne)

\* C7: record similarity is symmetric, also where a field is empty, normalises
\* to nothing or a sub-computation fails.
C7_Symmetric ==
    pc = "insight_done" => overall_similarity = swapped_similarity

C7_Witness ==
    /\ pc = "insight_done"
    /\ insight1 # insight2
    /\ insight1.limitations # insight2.limitations
    /\ overall_similarity # FZero
    /\ overall_similarity = swapped_similarity

\* C8 as stated: a record whose three fields are all non-empty has similarity
\* exactly 1.0 to itself, punctuation-only and stop-word-only fields included.
C8_ReflexiveNonEmpty ==
    (/\ pc = "insight_done"
     /\ insight1 = insight2
     /\ \A key \in {"insight", "results", "limitations"} :
            IsText(insight1, key) /\ FieldText(insight1, key) # <<>>)
    => overall_similarity = FOne

\* C8 amended: a record each of whose three fields keeps a term has similarity
\* 1.0 to itself up to rounding (two units in the last place of 1.0, above or
\* below); a record with a non-empty field that keeps no term stays below 1.0.
C8_ReflexiveWithTerms ==
    (/\ pc = "insight_done"
     /\ insight1 = insight2
     /\ \A key \in {"insight", "results", "limitations"} :
            IsText(insight1, key) /\ FieldText(insight1, key) # <<>>)
    => IF \A key \in {"insight", "results", "limitations"} :
              HasTerms(FieldText(insight1, key))
       THEN Within(overall_similarity, FOne, 4)
       ELSE FLess(overall_similarity, FOne)

C8_Witness ==
    /\ pc = "insight_done"
    /\ insight1 = insight2
    /\ \A key \in {"insight", "results", "limitations"} :
            IsText(insight1, key) /\ HasTerms(FieldText(insight1, key))
    /\ Within(overall_similarity, FOne, 4)

\* Both records are empty in results and in limitations.
OnlyInsightText ==
    /\ insight1.results = PyStr(<<>>) /\ insight2.results = PyStr(<<>>)
    /\ insight1.limitations = PyStr(<<>>) /\ insight2.limitations = PyStr(<<>>)

\* C9 as stated: identical non-empty insight text and empty results and
\* limitations give exactly 0.60.
C9_ExactlySixTenths ==
    (/\ pc = "insight_done"
     /\ OnlyInsightText
     /\ insight1.insight = insight2.insight
     /\ insight1.insight.t = "str" /\ insight1.insight.s # <<>>)
    => overall_similarity = FLiteral(6, 10)

\* C9 amended: a field that is empty (or absent, or None) on either side
\* contributes exactly zero; with identical insight text and empty results and
\* limitations the result is 0.60 up to rounding when the text keeps a term
\* (exactly 0.60 when it is one term), and 0.0 when it keeps none.
C9_OnlyInsightTerm ==
    (/\ pc = "insight_done"
     /\ ~Truthy(Get(insight1, "results")) \/ ~Truthy(Get(insight2, "results"))
     /\ ~Truthy(Get(insight1, "limitations")) \/ ~Truthy(Get(insight2, "limitations")))
    => LET term == calculate_text_similarity(Get(insight1, "insight"),
                                             Get(insight2, "insight"))
       IN  /\ overall_similarity = FMul(term.val, FLiteral(6, 10))
           /\ (insight1.insight = insight2.insight /\ insight1.insight.s # <<>>) =>
                IF ~HasTerms(insight1.insight.s) THEN overall_similarity = FZero
                ELSE IF Len(NGrams(Tokens(preprocess_text(insight1.insight.s)))) = 1
                     THEN overall_similarity = FLiteral(6, 10)
                     ELSE Within(overall_similarity, FLiteral(6, 10), 2)

C9_Witness ==
    /\ pc = "insight_done"
    /\ OnlyInsightText
    /\ insight1.insight = insight2.insight
    /\ HasTerms(insight1.insight.s)
    /\ overall_similarity = FLiteral(6, 10)

\* The similarity of one field when a failure of its computation counts as 0.
FieldTerm(a, b) ==
    LET r == calculate_text_similarity(a, b)
    IN  IF r.raised THEN FZero ELSE r.val

\* The weighted sum of the three field similarities, a failed one being 0.
SumOfFieldTerms(a, b) ==
    FAdd(FAdd(FMul(FieldTerm(Get(a, "insight"), Get(b, "insight")), WeightInsight),
              FMul(FieldTerm(PyStr(extract_results_text(Get(a, "results"))),
                             PyStr(extract_results_text(Get(b, "results")))),
                   WeightResults)),
         FMul(FieldTerm(Get(a, "limitations"), Get(b, "limitations")),
              WeightLimitations))

\* The comparison of the field raises: both values are truthy and one of
\* them is not a str.
FieldRaises(a, b, key) ==
    calculate_text_similarity(Get(a, key), Get(b, key)).raised

\* C22: a failure while computing the similarity of one field zeroes that
\* field's term only: calculate_insight_similarity returns the weighted sum of
\* the three field similarities with 0 for a failed one, also when the
\* failure comes from a field value that is not a string.
C22_FailureZeroesOneTerm ==
    pc = "insight_done" => overall_similarity = SumOfFieldTerms(insight1, insight2)

\* C22, what the code does: a vectoriser failure zeroes its own term, and a
\* failure outside calculate_text_similarity's try block makes the record
\* similarity 0.0 whatever the other fields score.
C22_FailureOutsideTryCollapses ==
    pc = "insight_done" =>
        IF \E key \in {"insight", "limitations"} : FieldRaises(insight1, insight2, key)
        THEN overall_similarity = FZero
        ELSE overall_similarity = SumOfFieldTerms(insight1, insight2)

\* C10: calculate_text_similarity on strings never raises; it returns 0.0 when
\* an argument is empty or normalises to the empty string, and when the
\* vectoriser fails because no term is left in either document.
C10_TextSimilarityTotal ==
    pc = "text_done" =>
        /\ ~similarity.raised
        /\ (preprocess_text(text1) = <<>> \/ preprocess_text(text2) = <<>>)
              => similarity.val = FZero
        /\ (~HasTerms(text1) /\ ~HasTerms(text2)) => similarity.val = FZero

C10_Witness ==
    /\ pc = "text_done"
    /\ preprocess_text(text1) # <<>> /\ preprocess_text(text2) # <<>>
    /\ ~HasTerms(text1) /\ ~HasTerms(text2)
    /\ similarity = Return(FZero)

\* C24: the result of preprocess_text holds lowercase ASCII letters, digits
\* and single spaces only, neither starts nor ends with a space, is empty for
\* the empty string and for None, and is left unchanged by preprocess_text.
C24_NormalForm ==
    pc = "clean_done" =>
        /\ \A i \in 1..Len(clean_text) :
               clean_text[i] \in LowerLetters \cup Digits \cup {" "}
        /\ clean_text # <<>> =>
               clean_text[1] # " " /\ clean_text[Len(clean_text)] # " "
        /\ \A i \in 1..(Len(clean_text) - 1) :
               ~(clean_text[i] = " " /\ clean_text[i + 1] = " ")
        /\ raw_text \in {PyNone, PyStr(<<>>)} => clean_text = <<>>
        /\ clean_again = clean_text

C24_Witness ==
    /\ pc = "clean_done"
    /\ raw_text = PyStr(<<"\n", "B", "-", "\t">>)
    /\ clean_text = <<"b">>
    /\ clean_again = clean_text

\* The text without the characters that are neither letters, digits nor
\* whitespace.
DeleteSpecial(s) ==
    SelectSeq(s, LAMBDA c : c \in LowerLetters \cup UpperLetters \cup Digits
                                  \cup Whitespace)

\* C25: preprocess_text deletes every character that is not an ASCII letter,
\* a digit or whitespace and puts nothing in its place: the result is the
\* lowercased text without those characters, whitespace runs collapsed and
\* the ends trimmed, so that letters separated by punctuation end up adjacent.
C25_SpecialCharactersDeleted ==
    (pc = "clean_done" /\ raw_text.t = "str") =>
        clean_text = Strip(CollapseWhitespace(DeleteSpecial(MapLower(raw_text.s))))

\* C25, what the code does: a special character becomes a space, so the
\* result is the runs of letters and digits of the lowercased text, joined by
\* single spaces.
C25_SpecialCharactersBecomeSpaces ==
    (pc = "clean_done" /\ raw_text.t = "str") =>
        clean_text = JoinWithSpace(WordRuns(MapLower(raw_text.s), <<>>))

\* C23: extract_results_text never raises; it returns its argument unchanged
\* when that is a string which is not the JSON encoding of a mapping, be it
\* no JSON at all or JSON of another kind (an array, a number, a quoted
\* string, null); None and the empty string give the empty string.
C23_NonMappingUnchanged ==
    pc = "extract_done" =>
        /\ ~extracted.raised
        /\ (raw_results.t = "str" /\ raw_results.s \in JsonOfAnotherKind \cup NotJson)
              => extracted.text = raw_results.s
        /\ raw_results \in {PyNone, PyStr(<<>>)} => extracted.text = <<>>

\* A JSON array holding a mapping comes back unchanged.
C23_Witness ==
    /\ pc = "extract_done"
    /\ raw_results = PyStr(<<"[">> \o JsonObjectText \o <<",", " ">> \o JsonNull
                              \o <<"]">>)
    /\ JsonLoads(raw_results.s).ok
    /\ JsonLoads(raw_results.s).val.t = "list"
    /\ extracted = Extracted(raw_results.s)

\* The texts built as JSON parse, those built as not JSON do not.
C23_InputKinds ==
    /\ \A t \in JsonOfAnotherKind : JsonLoads(t).ok /\ JsonLoads(t).val.t # "dict"
    /\ \A t \in NotJson : ~JsonLoads(t).ok
    /\ JsonLoads(JsonObjectText).ok /\ JsonLoads(JsonObjectText).val.t = "dict"

(***************************************************************************)
(* Properties of the batch functions.                                      *)
(***************************************************************************)
\* The records whose answer was False, in the order of the batch.
Kept(records, answers) ==
    LET at == SelectSeq([i \in 1..Len(answers) |-> i], LAMBDA i : ~answers[i])
    IN  [k \in 1..Len(at) |-> records[at[k]]]

CountTrue(answers) ==
    Cardinality({i \in 1..Len(answers) : answers[i]})

C11_KeepsUniqueInOrder ==
    entry = "batch_check_duplicates" =>
        /\ unique_insights = Kept(new_insights, verdicts)
        /\ outcome.returned =>
              /\ Len(verdicts) = Len(new_insights)
              /\ (calls = <<>> \/ AllCallsFailed) => unique_insights = new_insights

\* The decision of is_duplicate_insight with the default threshold: some row
\* is at least that similar to the record.
JudgedAgainst(rec, rows) ==
    \E j \in 1..Len(rows) :
        FLeq(DefaultThreshold, calculate_insight_similarity(rec, rows[j]))

\* While a batch is filtered: the records compared with are rows of the
\* table, and between two checks every record answered True so far has a row
\* of the table that similar.
JudgedAgainstCorpus ==
    entry = "batch_check_duplicates" =>
        /\ SeqToSet(existing_insights) \subseteq corpus
        /\ pc \in {"batch_loop", "batch_done"} =>
               \A i \in 1..Len(verdicts) :
                   verdicts[i] => \E row \in corpus :
                       FLeq(DefaultThreshold,
                            calculate_insight_similarity(new_insights[i], row))

\* Nothing is stored between two checks, and the answer for a record is
\* decided by that record and the rows retrieved for it.
JudgedAloneStep ==
    entry = "batch_check_duplicates" =>
        /\ corpus' = corpus
        /\ verdicts' # verdicts =>
               verdicts' = Append(verdicts, JudgedAgainst(new_insight, existing_insights))

\* C27: batch_check_duplicates judges each record against the persisted
\* corpus only: nothing is stored between two checks, the records of the
\* batch are never compared with one another, so that two identical records
\* matching no stored row are both kept, and the answer for a record depends
\* on no other record of the batch.
C27_JudgedAgainstCorpusOnly == []JudgedAgainstCorpus /\ [][JudgedAloneStep]_vars

\* Two identical records that were compared with the rows of the table and
\* match none are both returned.
C27_Witness ==
    /\ entry = "batch_check_duplicates"
    /\ pc = "batch_done"
    /\ outcome.returned
    /\ Len(new_insights) = 2
    /\ new_insights[1] = new_insights[2]
    /\ JudgedAgainst(new_insights[1], <<new_insights[2]>>)
    /\ corpus # {}
    /\ Len(calls) = 2 /\ calls[1].ok /\ calls[2].ok
    /\ existing_insights # <<>>
    /\ unique_insights = new_insights

\* The record carries its texts under the upper-case keys only.
IsStructured(rec) ==
    /\ \A key \in {"insight", "results", "limitations"} : rec[key] = PyAbsent
    /\ \A key \in {"INSIGHT", "RESULTS", "LIMITATIONS_CONTEXT"} : rec[key].t = "str"

C12_StatisticsDerived ==
    (entry = "get_duplicate_statistics" /\ pc = "batch_done") =>
        LET total == Len(new_insights)
            dups  == CountTrue(verdicts)
        IN  /\ outcome.returned
            /\ ~outcome.raised
            /\ Len(verdicts) = total
            /\ outcome.stats.total_insights = total
            /\ outcome.stats.duplicates_found = dups
            /\ outcome.stats.unique_insights = total - dups
            /\ 0 <= dups /\ dups <= total
            /\ outcome.stats.duplicate_rate =
                  (IF total = 0 THEN FZero ELSE FDiv(FFromInt(dups), FFromInt(total)))

C12_Witness ==
    /\ entry = "get_duplicate_statistics"
    /\ pc = "batch_done"
    /\ verdicts = <<FALSE, TRUE>>
    /\ outcome.stats = [total_insights |-> 2, duplicates_found |-> 1,
                        unique_insights |-> 1, duplicate_rate |-> FLiteral(1, 2)]

\* The queries that read the insights table.
ReadCalls == {"text_search", "select_limit", "select_recent"}

ReadOnlyState ==
    /\ \A i \in 1..Len(calls) : calls[i].call \in ReadCalls
    /\ SeqToSet(existing_insights) \subseteq corpus
    /\ SeqToSet(retrieval.val) \subseteq corpus
    /\ new_insight \in SeqToSet(new_insights) \cup {NoInsight}
    /\ SeqToSet(unique_insights) \subseteq SeqToSet(new_insights)

ReadOnlyStep ==
    /\ new_insights' = new_insights
    /\ corpus' = corpus
    /\ pc # "batch_loop" => new_insight' = new_insight

\* C14: deduplication is read-only: no step of check_for_duplicates,
\* batch_check_duplicates or get_duplicate_statistics changes the records of
\* the batch, the record being checked or the table; every storage call is a
\* read, and the candidates and the kept records are rows of the table and
\* records of the batch as they were.
C14_ReadOnly == []ReadOnlyState /\ [][ReadOnlyStep]_vars

C14_Witness ==
    /\ entry = "batch_check_duplicates"
    /\ pc = "batch_done"
    /\ outcome.returned
    /\ verdicts = <<TRUE, FALSE>>
    /\ \E i \in 1..Len(calls) : calls[i].ok
    /\ Len(unique_insights) = 1

(***************************************************************************)
(* Properties of candidate retrieval.                                      *)
(***************************************************************************)
\* C13: on every path (keyword query, fallback, recent records) the pool
\* returned by get_relevant_insights_for_comparison has at most 100 records.
C13_AtMostHundred ==
    (entry = "get_relevant_insights_for_comparison" /\ pc = "done") =>
        Len(retrieval.val) <= 100

\* C13, per path: at most KeywordLimit records from the keyword query and
\* from the fallback, at most RecentLimit from the recent-records query.
C13_BoundedPerPath ==
    (entry = "get_relevant_insights_for_comparison" /\ pc = "done") =>
        Len(retrieval.val) <= (IF LastCall = "select_recent" THEN RecentLimit
                               ELSE KeywordLimit)

\* The rows are listed by strictly falling id.
FallingIds(rows) == \A i \in 1..(Len(rows) - 1) : rows[i].id > rows[i + 1].id

\* The rows are the n rows of table with the greatest ids (all its rows when
\* it has fewer), by falling id.
GreatestIds(rows, table, n) ==
    /\ FallingIds(rows)
    /\ SeqToSet(rows) \subseteq table
    /\ Len(rows) = (IF Cardinality(table) < n THEN Cardinality(table) ELSE n)
    /\ \A r \in table \ SeqToSet(rows) : \A i \in 1..Len(rows) : r.id < rows[i].id

\* C21: the recent-records query is issued if and only if no keyword was
\* extracted.  With no keyword retrieval issues that query alone, once, and
\* a reply holds the `limit` rows with the greatest ids by falling id (limit
\* being the parameter of fetch_recent_insights); with a keyword the
\* recent-records query is never issued, whatever the other queries return.
C21_RecentIffNoKeywords ==
    /\ pc = "recent_query" => (keywords = {} /\ calls = <<>>)
    /\ (Retrieved /\ keywords = {}) =>
          /\ Len(calls) = 1
          /\ calls[1].call = "select_recent"
          /\ calls[1].ok => GreatestIds(fetched, corpus, RecentLimit)
    /\ keywords # {} =>
          /\ pc # "recent_query"
          /\ \A i \in 1..Len(calls) : calls[i].call # "select_recent"

C21_Witness ==
    /\ pc = "done"
    /\ keywords = {}
    /\ calls = <<[call |-> "select_recent", ok |-> TRUE]>>
    /\ Cardinality(corpus) > RecentLimit
    /\ Len(fetched) = RecentLimit
    /\ retrieval.val = fetched

(***************************************************************************)
(* Properties of extract_results_text.                                     *)
(***************************************************************************)
\* The texts among the values of a mapping, each followed by a space.
RECURSIVE SpacedTexts(_)
SpacedTexts(pairs) ==
    IF pairs = <<>> THEN <<>>
    ELSE IF pairs[1][2].t = "str"
         THEN pairs[1][2].s \o <<" ">> \o SpacedTexts(Tail(pairs))
         ELSE SpacedTexts(Tail(pairs))

\* The same without the last space.
ExpectedText(pairs) ==
    LET spaced == SpacedTexts(pairs)
    IN  IF spaced = <<>> THEN <<>> ELSE SubSeq(spaced, 1, Len(spaced) - 1)

\* C15: on a mapping extract_results_text returns its string values, in the
\* mapping's order, joined by single spaces, other values being ignored; on
\* the JSON encoding of the mapping it returns the same text.
C15_ResultsText ==
    /\ pc \in {"results_encoded", "results_done"} =>
          mapping_text = ExpectedText(results_dict)
    /\ pc = "results_done" => encoded_text = mapping_text

C15_Witness ==
    /\ pc = "results_done"
    /\ Len(results_dict) = 2
    /\ results_dict[1][2] = PyStr(<<"a", "\"", "\n", "\\", "n">>)
    /\ results_dict[2][2] = PyStr(Bean)
    /\ encoded_text = <<"a", "\"", "\n", "\\", "n", " ">> \o Bean
    /\ mapping_text = encoded_text

(***************************************************************************)
(* Properties of extract_keywords_from_insight.                            *)
(***************************************************************************)
\* C16: the keywords of "the quick brown fox jumps over the lazy dog
\* testimonials testimonials testimonials" contain "testimonials" and neither
\* "the" nor "over".
C16_QuickBrownFox ==
    (pc = "keywords_done" /\ new_insight.insight = PyStr(QuickBrownFox)) =>
        /\ Testimonials \in keywords
        /\ The \notin keywords
        /\ Over \notin keywords

\* C16, what the function returns for that text with no limitations: the
\* five most frequent words of more than three letters, "over" among them.
C16_QuickBrownFoxKeywords ==
    (/\ pc = "keywords_done"
     /\ new_insight.insight = PyStr(QuickBrownFox)
     /\ ~Truthy(Get(new_insight, "limitations")))
    => keywords = {Testimonials, Quick, Brown, Jumps, Over}

\* The first three words of four and more letters of the limitations.
FromLimitations(insight) ==
    LET limitations == Get(insight, "limitations")
    IN  IF Truthy(limitations) /\ limitations.t = "str"
        THEN SeqToSet(Prefix(LetterRuns(limitations.s, 4), 3))
        ELSE {}

\* Both texts are a str, or empty: the function gets to its return.
TextFields(insight) ==
    \A key \in {"insight", "limitations"} :
        Get(insight, key).t = "str" \/ ~Truthy(Get(insight, key))

\* C26: the part of the keyword set that comes from the insight text is the
\* 5 most frequent distinct terms among its lowercased alphabetic runs of 3
\* and more letters that are not stop words, the first met first among equal
\* counts; a 3-letter run that is no stop word and ranks among them is a
\* keyword.
C26_FiveMostFrequentOfThreeLetters ==
    (pc = "keywords_done" /\ TextFields(new_insight)) =>
        LET text  == Get(new_insight, "insight")
            terms == SelectSeq(LetterRuns(text.s, 3),
                               LAMBDA w : w \notin KeywordStopWords)
        IN  keywords = SeqToSet(MostCommon(terms, 5, {}))
                          \cup FromLimitations(new_insight)

\* C26, what the function keeps: the 5 most frequent among the runs of 4 and
\* more letters, so that no 3-letter run is ever a keyword.
C26_FiveMostFrequentOfFourLetters ==
    (pc = "keywords_done" /\ TextFields(new_insight)) =>
        /\ keywords = SeqToSet(MostCommon(LetterRuns(Get(new_insight, "insight").s, 4),
                                          5, {}))
                          \cup FromLimitations(new_insight)
        /\ \A k \in keywords : Len(k) >= 4

\* C17: the keyword set has at most 8 elements, at most 5 of them not among
\* the first three words of the limitations; each is a word of lowercase
\* letters, at least 3 of them, that is not in the stop-word list; the set is
\* empty when both texts are empty.
C17_KeywordSet ==
    pc = "keywords_done" =>
        LET from_limitations ==
                IF Get(new_insight, "limitations").t = "str"
                THEN SeqToSet(Prefix(LetterRuns(Get(new_insight, "limitations").s, 4), 3))
                ELSE {}
        IN  /\ Cardinality(keywords) <= 8
            /\ Cardinality(keywords \ from_limitations) <= 5
            /\ Cardinality(keywords \cap from_limitations) <= 3
            /\ \A k \in keywords :
                   /\ Len(k) >= 3
                   /\ \A i \in 1..Len(k) : k[i] \in LowerLetters
                   /\ k \notin KeywordStopWords
            /\ (~Truthy(Get(new_insight, "insight"))
                 /\ ~Truthy(Get(new_insight, "limitations"))) => keywords = {}

C17_Witness ==
    /\ pc = "keywords_done"
    /\ new_insight.insight = PyStr(QuickBrownFox)
    /\ Cardinality(keywords) = 8
    /\ keywords \cap {Lazy, Bean, Date} = {Lazy, Bean, Date}

\* C18: with a keyword, retrieval issues the keyword query once, then the
\* fallback fetch once and only if the keyword query failed, and nothing
\* else: a keyword query that succeeds, with rows or without, ends retrieval.
C18_CallOrder ==
    keywords # {} =>
        \/ pc = "keyword_query" /\ calls = <<>>
        \/ pc = "fallback_fetch"
              /\ calls = <<[call |-> "text_search", ok |-> FALSE]>>
        \/ Retrieved /\ calls = <<[call |-> "text_search", ok |-> TRUE]>>
        \/ /\ Retrieved
           /\ Len(calls) = 2
           /\ calls[1] = [call |-> "text_search", ok |-> FALSE]
           /\ calls[2].call = "select_limit"

C18_Witness ==
    /\ pc = "done"
    /\ keywords # {}
    /\ corpus # {}
    /\ calls = <<[call |-> "text_search", ok |-> TRUE]>>
    /\ retrieval = Rows(<<>>)

\* The fallback fetch has answered.
FellBack == Retrieved /\ Len(calls) = 2 /\ calls[2].call = "select_limit"

\* The rows whose lowercased insight holds a keyword, in the order of rows.
Matching(rows, words) ==
    SelectSeq(rows, LAMBDA r : \E k \in words : IsInfix(k, MapLower(r.insight.s)))

\* C19: after a failed keyword query and a successful fallback fetch the
\* result is the first KeywordLimit rows, in fetched order, among the fetched
\* rows whose lowercased insight contains a keyword; after a failed fallback
\* fetch it is empty.
C19_FallbackFilter ==
    FellBack =>
        IF calls[2].ok
        THEN /\ retrieval.val = Prefix(Matching(fetched, keywords), KeywordLimit)
             /\ Len(retrieval.val) <= KeywordLimit
             /\ \A i \in 1..Len(retrieval.val) :
                    MatchesKeyword(retrieval.val[i], keywords)
        ELSE retrieval.val = <<>>

C19_Witness ==
    /\ FellBack
    /\ calls[2].ok
    /\ Len(Matching(fetched, keywords)) > KeywordLimit
    /\ Len(retrieval.val) = KeywordLimit
    /\ \E i \in 1..KeywordLimit : ~MatchesKeyword(fetched[i], keywords)

\* C20: the fallback fetch reads the 2 x limit rows with the greatest ids, by
\* falling id, as the recent-records query does.
C20_FallbackReadsMostRecent ==
    (FellBack /\ calls[2].ok) =>
        fetched = RecentReply(corpus, 2 * KeywordLimit).rows

\* C20, what the fallback fetch does read: 2 x limit rows of the table, all of
\* them when the table has fewer, in an order the query does not fix.
C20_FallbackReadsSomeRows ==
    (FellBack /\ calls[2].ok) =>
        /\ SeqToSet(fetched) \subseteq corpus
        /\ Len(fetched) = Cardinality(SeqToSet(fetched))
        /\ Len(fetched) = (IF Cardinality(corpus) < 2 * KeywordLimit
                           THEN Cardinality(corpus) ELSE 2 * KeywordLimit)

(***************************************************************************)
(* Properties of the web frontend.                                         *)
(***************************************************************************)
Running == {t \in Threads : Executing(t)}

\* A start request is answered: with a thread, or with the error.
StartAnswered == response' \in {"started", "already_running"} /\ response' # response

\* C29: at most one run_real_pipeline thread executes at any time, whatever
\* the interleaving of /api/start, /api/reset and the steps of a thread: a
\* start request that arrives while a run is in progress is rejected with
\* 'Pipeline is already running' and starts no thread.
C29_AtMostOneThread ==
    /\ [](Cardinality(Running) <= 1)
    /\ [][(Running # {} /\ threads' # threads) => Running' \subseteq Running]_vars

\* C29, what the guard of start_pipeline does ensure: a start request handled
\* while pipeline_status['running'] is True starts no thread; the flag is set
\* by the thread itself and cleared by /api/reset.
C29_GuardedByFlag ==
    [][pipeline_status.running => Running' \subseteq Running]_vars

StepStatus(i) == pipeline_status.steps[StepNames[i]].status

\* Completed steps, then at most one step running or in error, then pending
\* steps only.
StatusForm ==
    \E done \in 0..Len(StepNames) :
        /\ \A i \in 1..done : StepStatus(i) = "completed"
        /\ done < Len(StepNames) =>
              StepStatus(done + 1) \in {"running", "error", "pending"}
        /\ \A i \in (done + 2)..Len(StepNames) : StepStatus(i) = "pending"

\* C30: during one run with no reset the statuses of the five steps, in
\* order, are completed ones, then at most one running or in error, then
\* pending ones; a step is running only when all earlier ones are completed;
\* when the run has ended, normally or by an exception, running is False and
\* current_step is None.
C30_StepOrder ==
    /\ StatusForm
    /\ \A i \in 1..Len(StepNames) :
          StepStatus(i) = "running" =>
              /\ \A j \in 1..(i - 1) : StepStatus(j) = "completed"
              /\ pipeline_status.current_step = StepNames[i]
    /\ Running = {} =>
          /\ ~pipeline_status.running
          /\ pipeline_status.current_step = "None"

\* A run that ended by an exception in its third step.
C30_Witness ==
    /\ Running = {}
    /\ StepStatus(1) = "completed" /\ StepStatus(2) = "completed"
    /\ StepStatus(3) = "error"
    /\ StepStatus(4) = "pending" /\ StepStatus(5) = "pending"
    /\ pipeline_status.errors = <<"exception">>
    /\ ~pipeline_status.running
    /\ pipeline_status.current_step = "None"

Init == InitDedup

Next == NextDedup

Spec == Init /\ [][Next]_vars
====
